---- MODULE Spec2Model ----
(***************************************************************************)
(* Cent.Alerts: the message-delivery reliability layer.                    *)
(*                                                                         *)
(*   SpecGateway  - telegram_api, the retrying gateway call                *)
(*                  (backend/server.py).                                   *)
(*   SpecDispatch - the scrape-and-notify cycle: check_for_new_spots and   *)
(*                  notify_users_about_spot of backend/server.py, and      *)
(*                  check_and_alert of standalone_bot/bot.py.  The two are *)
(*                  separate programs; "deployment" says which one runs.   *)
(*   SpecChannel  - the delivery channel: register_webhook, the health     *)
(*                  checker, force-reregister and shutdown of              *)
(*                  backend/server.py; main of standalone_bot/bot.py.      *)
(*   SpecWatchdog - startup and the health checker of backend/server.py    *)
(*                  over a longer time, without operator actions.          *)
(*                                                                         *)
(* Texts are strings; where the code looks inside one (upper(), "in"),     *)
(* Chars spells it as a sequence of characters.                            *)
(***************************************************************************)
EXTENDS Integers, Sequences, FiniteSets, TLC

VARIABLES
    \* ---- telegram_api (one call in progress at a time in SpecGateway)
    TELEGRAM_BOT_TOKEN, \* TRUE iff the token is configured
    apiPc,              \* "idle" | "attempt" | "backoff" | "exhausted" | "done"
    attempt,            \* loop variable of "for attempt in range(retries)"
    apiOutcomes,        \* outcome of each HTTP attempt made by this call
    apiSleeps,          \* sleeps performed by this call, in order
    apiResult,          \* value the call returned (or "raised")
    errors_count,       \* state.errors_count
    errorsAtCall,       \* history: errors_count when the call started
    callsMade,          \* history: number of calls started
    \* ---- which program runs
    deployment,         \* "backend" (server.py) | "standalone" (bot.py) | "none"
    \* ---- backend: collections of the database
    users,              \* db.users: user_id -> [telegram_chat_id, alert_telegram]
    availability_snapshots, \* db.availability_snapshots, in insertion order
    notifications,      \* db.notifications, in insertion order
    \* ---- backend: check_for_new_spots / notify_users_about_spot
    chkPc,              \* "idle" | "scraped" | "loaded" | "notify" | "send" | "record"
    chkSpots,           \* spots = await scrape_cisia()
    chkLast,            \* last: <<>> for None, <<snapshot>> otherwise
    chkTodo,            \* rest of "for spot in available" still to be notified
    chkUsers,           \* rest of "for user in users" for the head of chkTodo
    cycles,             \* history: scrape cycles started
    chkRaised,          \* history: the cycle in progress (or the last one) raised
    usersAtQuery,       \* history: db.users as it was at the last users query
    \* ---- standalone bot: check_and_alert
    subscribers,        \* the set "subscribers"
    last_available,     \* the set "last_available"
    botPc,              \* "idle" | "send"
    botSpots,           \* spots = await scrape_cisia()
    botTodo,            \* rest of "for spot in spots" with key in new_spots
    botChats,           \* rest of "for chat_id in subscribers.copy()"
    botHistory,         \* history: the scrape results of the past cycles
    \* ---- both: messages handed to the gateway
    alerts,             \* history: spot alerts of the cycle, in sending order
    \* ---- backend: configuration and the provider's registration
    base_url,           \* the public base URL, "" when it cannot be determined
    provUrl,            \* provider: url of getWebhookInfo
    \* ---- backend: SystemState
    webhook_registered, webhook_url, last_webhook_check, auto_recoveries,
    health_checks_passed, health_checks_failed, health_checker_running,
    \* ---- backend: lifespan, health_checker_loop, force_reregister_webhook
    lsPc,               \* "init" | "registering" | "running" | "stopping" |
                        \* "returned" | "stopped"
    hcPc,               \* "off" | "sleep" | "repair" | "exited"
    hcIssues,           \* "issues" of the last health_check_and_repair
    hcInfo,             \* "info" of the last health_check_and_repair
    frPc,               \* "idle" | "registering"
    frResponse,         \* last response of force_reregister_webhook
    reg,                \* register_webhook as run by each of its callers
    now,                \* seconds slept by the health checker since startup
    lastHealthyAt,      \* history: time of the last verified registration or
                        \* health check without issues
    frCalls,            \* history: force-reregister requests
    horizon,            \* the time up to which the health checker is followed
    \* ---- standalone bot: main
    WEBHOOK_URL, webhookMode, pollingMode,
    \* ---- inbound messages
    received,           \* history: webhook requests / bot updates taken
    acks,               \* history: the requests of telegram_webhook and
                        \* its responses, in order
    tasks,              \* the tasks of handle_telegram_message (for the bot:
                        \* the handler runs), in order of creation
    messages_received_count,
    \* ---- one scrape, from the table fetched to the list of available spots
    fetchOutcome,       \* input: "raised" (no response), "http_error"
                        \* (a response with an error status), "ok"
    hasTable,           \* input: the body of the response holds a <table>
    pageRows,           \* input: the rows of the first table of the page
    failAt,             \* input: the row whose processing raises; 0: none
    scrPc,              \* "fetch" | "done"
    scrSpots,           \* "spots", the return value of scrape_cisia
    scrAvailable,       \* "available", the spots counted and alerted on
    \* ---- the diff of two snapshots, run twice
    diffPrev,           \* input: the spots of the preceding snapshot
    diffCur,            \* input: the spots of the current scrape
    diffPc,             \* "first" | "second" | "done"
    diffFirst,          \* the newly available keys of the first run
    diffSecond,         \* those of the second run, on the rows reordered
    \* ---- one request to an authenticated endpoint
    user_sessions,      \* the collection db.user_sessions, by session_token
    authNow,            \* datetime.now(timezone.utc) at the request
    authReq,            \* input: the cookie and the Authorization header
    authPc,             \* "request" | "done"
    authResp,           \* the response: status, and the user returned
    \* ---- check_for_new_spots run by scraper_loop and by a refresh at once
    run,                \* per caller: pc and the locals spots, last, todo, users
    scrapes             \* history: the available keys of the page, per scrape

gatewayVars == <<TELEGRAM_BOT_TOKEN, apiPc, attempt, apiOutcomes, apiSleeps,
                 apiResult, errors_count, errorsAtCall, callsMade>>

dispatchVars == <<deployment, users, availability_snapshots, notifications,
                  chkPc, chkSpots, chkLast, chkTodo, chkUsers, cycles,
                  chkRaised, usersAtQuery, subscribers, last_available, botPc,
                  botSpots, botTodo, botChats, botHistory, alerts>>

channelVars == <<base_url, provUrl, webhook_registered, webhook_url, last_webhook_check,
                 auto_recoveries, health_checks_passed, health_checks_failed,
                 health_checker_running, lsPc, hcPc, hcIssues, hcInfo, frPc,
                 frResponse,
                 reg, now, lastHealthyAt, frCalls, horizon, WEBHOOK_URL,
                 webhookMode, pollingMode>>

routerVars == <<received, acks, tasks, messages_received_count>>

scraperVars == <<fetchOutcome, hasTable, pageRows, failAt, scrPc, scrSpots,
                 scrAvailable>>

diffVars == <<diffPrev, diffCur, diffPc, diffFirst, diffSecond>>

\* the variables of the computations followed on their own
authVars == <<user_sessions, authNow, authReq, authPc, authResp>>

cycleVars == <<run, scrapes>>

sideVars == <<scraperVars, diffVars, authVars, cycleVars>>

vars == <<gatewayVars, dispatchVars, channelVars, routerVars, sideVars>>

----------------------------------------------------------------------------
(* Bounds *)

MaxCalls == 2          \* gateway calls made in one behaviour
MaxRows == 1           \* rows of the scraped table
MaxCycles == 2         \* scrape cycles in one behaviour
MaxChecks == 4         \* health checks in one behaviour of the watchdog alone
MaxOpChecks == 1       \* health checks in one behaviour with operator actions
MaxForce == 1          \* force-reregister requests in one behaviour
MaxMsgs == 2           \* inbound requests in one behaviour
MaxDiffRows == 2       \* spots in a snapshot given to the diff

----------------------------------------------------------------------------
(* telegram_api *)

\* "await asyncio.sleep(30)" of health_checker_loop
HealthInterval == 30

\* default of the parameter "retries"
retries == 5

\* what one HTTP attempt can do:
\*   "ok"      response whose JSON has ok = true
\*   "nonok"   response whose JSON has ok = false, status other than 429
\*             (a 5xx with a JSON body is one of these)
\*   "r429"    response with status 429 and ok = false
\*   "timeout" httpx.TimeoutException
\*   "exc"     any other exception (network error, body that is not JSON)
AttemptOutcomes == {"ok", "nonok", "r429", "timeout", "exc"}

\* retry_after values the provider may send with a 429
RetryAfterValues == {1, 5}

NoResult     == [kind |-> "none",   ok |-> FALSE, error |-> ""]
OkResult     == [kind |-> "return", ok |-> TRUE,  error |-> ""]
TokenFailure == [kind |-> "return", ok |-> FALSE, error |-> "Token not configured"]
RetryFailure == [kind |-> "return", ok |-> FALSE, error |-> "All retries failed"]

\* "1 * (attempt + 1)", the sleep between two attempts
BackoffDelay(a) == 1 * (a + 1)

\* NextIteration with the loop bound off by one
NextIteration_offByOne(a) ==
    IF a + 1 < retries - 1
    THEN /\ attempt' = a + 1
         /\ apiPc' = "attempt"
    ELSE /\ attempt' = a
         /\ apiPc' = "exhausted"

\* the for loop moves to its next value, or falls out of the loop
NextIteration(a) ==
    IF a + 1 < retries
    THEN /\ attempt' = a + 1
         /\ apiPc' = "attempt"
    ELSE /\ attempt' = a
         /\ apiPc' = "exhausted"

\* the call starts: the token guard, then the first loop iteration
ApiCall ==
    /\ apiPc = "idle"
    /\ callsMade < MaxCalls
    /\ callsMade' = callsMade + 1
    /\ errorsAtCall' = errors_count
    /\ apiOutcomes' = <<>>
    /\ apiSleeps' = <<>>
    /\ attempt' = 0
    /\ IF ~TELEGRAM_BOT_TOKEN
       THEN /\ apiResult' = TokenFailure
            /\ apiPc' = "done"
       ELSE /\ apiResult' = NoResult
            /\ apiPc' = IF 0 < retries THEN "attempt" ELSE "exhausted"
    /\ UNCHANGED <<TELEGRAM_BOT_TOKEN, errors_count>>
    /\ UNCHANGED <<dispatchVars, channelVars, routerVars, sideVars>>

\* one HTTP attempt answered with ok = true: "return result"
ApiAttemptOk ==
    /\ apiPc = "attempt"
    /\ apiOutcomes' = Append(apiOutcomes, "ok")
    /\ apiResult' = OkResult
    /\ apiPc' = "done"
    /\ UNCHANGED <<TELEGRAM_BOT_TOKEN, attempt, apiSleeps, errors_count,
                   errorsAtCall, callsMade>>
    /\ UNCHANGED <<dispatchVars, channelVars, routerVars, sideVars>>

\* status 429: sleep retry_after, then "continue"
ApiAttemptRateLimited ==
    /\ apiPc = "attempt"
    /\ \E retry_after \in RetryAfterValues :
          apiSleeps' = Append(apiSleeps, [why |-> "retry_after", secs |-> retry_after])
    /\ apiOutcomes' = Append(apiOutcomes, "r429")
    /\ NextIteration(attempt)
    /\ UNCHANGED <<TELEGRAM_BOT_TOKEN, apiResult, errors_count, errorsAtCall,
                   callsMade>>
    /\ UNCHANGED <<dispatchVars, channelVars, routerVars, sideVars>>

\* ok = false, a timeout or any other exception: logged, control reaches
\* the backoff test after the try statement
ApiAttemptFailed ==
    /\ apiPc = "attempt"
    /\ \E o \in AttemptOutcomes \ {"ok", "r429"} :
          apiOutcomes' = Append(apiOutcomes, o)
    /\ apiPc' = "backoff"
    /\ UNCHANGED <<TELEGRAM_BOT_TOKEN, attempt, apiSleeps, apiResult,
                   errors_count, errorsAtCall, callsMade>>
    /\ UNCHANGED <<dispatchVars, channelVars, routerVars, sideVars>>

\* "if attempt < retries - 1: sleep(1 * (attempt + 1))", then the next
\* iteration
ApiBackoff ==
    /\ apiPc = "backoff"
    /\ apiSleeps' = IF attempt < retries - 1
                    THEN Append(apiSleeps, [why |-> "backoff", secs |-> BackoffDelay(attempt)])
                    ELSE apiSleeps
    /\ NextIteration(attempt)
    /\ UNCHANGED <<TELEGRAM_BOT_TOKEN, apiOutcomes, apiResult, errors_count,
                   errorsAtCall, callsMade>>
    /\ UNCHANGED <<dispatchVars, channelVars, routerVars, sideVars>>

\* ApiExhausted without "state.errors_count += 1"
ApiExhausted_noCount ==
    /\ apiPc = "exhausted"
    /\ apiResult' = RetryFailure
    /\ apiPc' = "done"
    /\ UNCHANGED <<TELEGRAM_BOT_TOKEN, attempt, apiOutcomes, apiSleeps,
                   errors_count, errorsAtCall, callsMade>>
    /\ UNCHANGED <<dispatchVars, channelVars, routerVars, sideVars>>

\* after the loop: count the error, return the tagged failure
ApiExhausted ==
    /\ apiPc = "exhausted"
    /\ errors_count' = errors_count + 1
    /\ apiResult' = RetryFailure
    /\ apiPc' = "done"
    /\ UNCHANGED <<TELEGRAM_BOT_TOKEN, attempt, apiOutcomes, apiSleeps,
                   errorsAtCall, callsMade>>
    /\ UNCHANGED <<dispatchVars, channelVars, routerVars, sideVars>>

\* the caller has the result; the gateway is free for the next call
ApiReturn ==
    /\ apiPc = "done"
    /\ callsMade < MaxCalls
    /\ apiPc' = "idle"
    /\ UNCHANGED <<TELEGRAM_BOT_TOKEN, attempt, apiOutcomes, apiSleeps,
                   apiResult, errors_count, errorsAtCall, callsMade>>
    /\ UNCHANGED <<dispatchVars, channelVars, routerVars, sideVars>>

----------------------------------------------------------------------------
(* Text *)

\* the characters of the texts that the code inspects
Chars(str) ==
    CASE str = "" -> <<>>
      [] str = "DISPONIBILI" -> <<"D", "I", "S", "P", "O", "N", "I", "B", "I", "L", "I">>
      [] str = "POSTI DISPONIBILI" ->
            <<"P", "O", "S", "T", "I", " ", "D", "I", "S", "P", "O", "N", "I", "B", "I", "L", "I">>
      [] str = "ESAURITO" -> <<"E", "S", "A", "U", "R", "I", "T", "O">>
      [] str = "CENT@CASA" -> <<"C", "E", "N", "T", "@", "C", "A", "S", "A">>
      [] str = "CASA" -> <<"C", "A", "S", "A">>
      [] str = "cent@casa" -> <<"c", "e", "n", "t", "@", "c", "a", "s", "a">>
      [] str = "TOLC@CASA" -> <<"T", "O", "L", "C", "@", "C", "A", "S", "A">>
      [] str = "TOLC-I" -> <<"T", "O", "L", "C", "-", "I">>

LowerCase == <<"a", "b", "c", "d", "e", "i", "l", "n", "o", "p", "r", "s", "t", "u">>
UpperCase == <<"A", "B", "C", "D", "E", "I", "L", "N", "O", "P", "R", "S", "T", "U">>

\* str.upper() of a spelled text
Upper(chars) ==
    [i \in DOMAIN chars |->
        IF \E j \in DOMAIN LowerCase : LowerCase[j] = chars[i]
        THEN UpperCase[CHOOSE j \in DOMAIN LowerCase : LowerCase[j] = chars[i]]
        ELSE chars[i]]

\* "sub in str", on spelled texts
Contains(chars, sub) ==
    \E i \in 1..(Len(chars) - Len(sub) + 1) :
        SubSeq(chars, i, i + Len(sub) - 1) = sub

----------------------------------------------------------------------------
(* The scraped page *)

\* one <tr> of the first table: the number of its <td> cells, the texts of
\* cells 0, 1 and 7, whether cell 6 holds an <a>, and the text of cell 6
\* (cells 2..5 are copied into the alert text and never inspected)
TableRow(ty, uni, link, txt, date) ==
    [ncells |-> 8, type |-> ty, university |-> uni, has_link |-> link,
     status_text |-> txt, test_date |-> date]

\* the rows the scrape cycles are run on: two spots that differ, and two
\* spots whose university and test date differ but concatenate alike
RowPool ==
    { TableRow("CENT@CASA", "A", TRUE, "", "C"),
      TableRow("CENT@CASA", "A", FALSE, "ESAURITO", "C"),
      TableRow("CENT@CASA", "A|B", TRUE, "", "C"),
      TableRow("CENT@CASA", "A", TRUE, "", "B|C") }

RowLists == UNION {[1..n -> RowPool] : n \in 0..MaxRows}

\* what the fetch of CISIA_URL gives: an exception or an HTTP error status,
\* a page without a table, or a page whose first table has these rows
Pages ==
    {[kind |-> "error", rows |-> <<>>], [kind |-> "notable", rows |-> <<>>]}
    \cup {[kind |-> "table", rows |-> rows] : rows \in RowLists}

\* server.py: the row filter
Retained(row) ==
    /\ row.ncells >= 7
    /\ \/ Contains(Upper(Chars(row.type)), Chars("CENT@CASA"))
       \/ Contains(Upper(Chars(row.type)), Chars("CASA"))

\* server.py: the AvailabilitySpot built from a retained row
ParseRow(row) ==
    [type |-> row.type,
     university |-> row.university,
     status |-> IF row.has_link THEN "POSTI DISPONIBILI" ELSE row.status_text,
     test_date |-> IF row.ncells > 7 THEN row.test_date ELSE ""]

RECURSIVE ScrapeRows(_)
ScrapeRows(rows) ==
    IF rows = <<>> THEN <<>>
    ELSE IF Retained(Head(rows))
         THEN <<ParseRow(Head(rows))>> \o ScrapeRows(Tail(rows))
         ELSE ScrapeRows(Tail(rows))

\* server.py scrape_cisia
scrape_cisia(page) ==
    IF page.kind = "table" THEN ScrapeRows(page.rows) ELSE <<>>

\* bot.py: the row filter and the dict built from a retained row
BotRetained(row) ==
    /\ row.ncells >= 7
    /\ Contains(Upper(Chars(row.type)), Chars("CASA"))

BotParseRow(row) ==
    [university |-> row.university,
     available |-> row.has_link,
     test_date |-> IF row.ncells > 7 THEN row.test_date ELSE ""]

RECURSIVE BotScrapeRows(_)
BotScrapeRows(rows) ==
    IF rows = <<>> THEN <<>>
    ELSE IF BotRetained(Head(rows))
         THEN <<BotParseRow(Head(rows))>> \o BotScrapeRows(Tail(rows))
         ELSE BotScrapeRows(Tail(rows))

\* bot.py scrape_cisia
bot_scrape_cisia(page) ==
    IF page.kind = "table" THEN BotScrapeRows(page.rows) ELSE <<>>

\* the rows one scrape is run on: every number of cells around seven, the
\* exam types of the page in both cases, a status cell with a link, with
\* the text of a full session, with the text of a free one
ScrapePool ==
    {[ncells |-> n, type |-> ty, university |-> "A", has_link |-> st[1],
      status_text |-> st[2], test_date |-> IF n > 7 THEN "C" ELSE ""] :
        n \in {6, 7, 8},
        ty \in {"CENT@CASA", "cent@casa", "TOLC@CASA", "TOLC-I"},
        st \in {<<TRUE, "">>, <<FALSE, "ESAURITO">>, <<FALSE, "DISPONIBILI">>}}

ScrapeLists == UNION {[1..n -> ScrapePool] : n \in 0..MaxRows}

\* tables one row longer, for a failure after rows that were parsed
FailLists == [1..(MaxRows + 1) -> RowPool]

\* what one scrape meets: no response; a response, with an error status or
\* not, whose body has no table; one whose body has a table, with the row
\* at which processing raises, if any
ScrapeInputs ==
    {[fetch |-> "raised", table |-> FALSE, rows |-> <<>>, failAt |-> 0]}
    \cup {[fetch |-> f, table |-> FALSE, rows |-> <<>>, failAt |-> 0] :
             f \in {"http_error", "ok"}}
    \cup UNION {{[fetch |-> f, table |-> TRUE, rows |-> rows, failAt |-> k] :
                    f \in {"http_error", "ok"}, k \in 0..Len(rows)} :
                 rows \in ScrapeLists \cup FailLists}

\* the rows whose spots are in the list when the loop over the rows ends
\* or is left by an exception
RowsDone(rows, k) == IF k = 0 THEN rows ELSE SubSeq(rows, 1, k - 1)

----------------------------------------------------------------------------
(* backend: check_for_new_spots and notify_users_about_spot *)

\* f"{university}|{test_date}"
Key(university, test_date) == university \o "|" \o test_date

\* "DISPONIBILI" in status.upper()
IsAvailable(status) == Contains(Upper(Chars(status)), Chars("DISPONIBILI"))

RECURSIVE FilterAvailable(_)
\* [s for s in spots if "DISPONIBILI" in s.status.upper()]
FilterAvailable(spots) ==
    IF spots = <<>> THEN <<>>
    ELSE IF IsAvailable(Head(spots).status)
         THEN <<Head(spots)>> \o FilterAvailable(Tail(spots))
         ELSE FilterAvailable(Tail(spots))

\* find_one({}, sort=[("timestamp", -1)]): <<>> on an empty collection
LatestSnapshot(snaps) ==
    IF snaps = <<>> THEN <<>>
    ELSE <<CHOOSE s \in {snaps[i] : i \in DOMAIN snaps} :
              \A i \in DOMAIN snaps : snaps[i].timestamp <= s.timestamp>>

\* old_keys, from the spots of the last snapshot
old_keys(lastSnap) ==
    {Key(lastSnap.spots[i].university, lastSnap.spots[i].test_date) :
        i \in {j \in DOMAIN lastSnap.spots : IsAvailable(lastSnap.spots[j].status)}}

\* NewSpots without the test "key not in old_keys"
NewSpots_noDedup(available, keys) ==
    available

RECURSIVE NewSpots(_, _)
\* the spots of "for spot in available" that pass "key not in old_keys"
NewSpots(available, keys) ==
    IF available = <<>> THEN <<>>
    ELSE IF Key(Head(available).university, Head(available).test_date) \notin keys
         THEN <<Head(available)>> \o NewSpots(Tail(available), keys)
         ELSE NewSpots(Tail(available), keys)

NoChat == "None"       \* telegram_chat_id is None
UserIds == {"u1", "u2"}
UserOrder == <<"u1", "u2">>

\* "if chat_id:"
Truthy(chat_id) == chat_id \notin {NoChat, ""}

RECURSIVE FindUsers(_, _)
FindUsers(order, us) ==
    IF order = <<>> THEN <<>>
    ELSE IF us[Head(order)].alert_telegram /\ us[Head(order)].telegram_chat_id # NoChat
         THEN <<[user_id |-> Head(order),
                 telegram_chat_id |-> us[Head(order)].telegram_chat_id]>>
              \o FindUsers(Tail(order), us)
         ELSE FindUsers(Tail(order), us)

\* FindAlertUsers without the alert_telegram filter
FindAlertUsers_everyone(us) ==
    [i \in DOMAIN UserOrder |->
        [user_id |-> UserOrder[i],
         telegram_chat_id |-> us[UserOrder[i]].telegram_chat_id]]

\* db.users.find({"alert_telegram": True, "telegram_chat_id": {"$ne": None}})
FindAlertUsers(us) == FindUsers(UserOrder, us)

RECURSIVE SkipFalsy(_)
\* the loop "for user in users" runs on to the next user with a truthy chat id
SkipFalsy(found) ==
    IF found = <<>> THEN <<>>
    ELSE IF Truthy(Head(found).telegram_chat_id) THEN found
         ELSE SkipFalsy(Tail(found))

botVars == <<subscribers, last_available, botPc, botSpots, botTodo, botChats,
             botHistory>>

\* ChkEnd where an exception ends scraper_loop
ChkEnd_fatal(raised) ==
    /\ chkPc' = IF raised THEN "dead" ELSE "idle"
    /\ chkSpots' = <<>>
    /\ chkLast' = <<>>
    /\ chkTodo' = <<>>
    /\ chkUsers' = <<>>
    /\ chkRaised' = raised

\* the function returns (or its except clause has logged the error)
ChkEnd(raised) ==
    /\ chkPc' = "idle"
    /\ chkSpots' = <<>>
    /\ chkLast' = <<>>
    /\ chkTodo' = <<>>
    /\ chkUsers' = <<>>
    /\ chkRaised' = raised

\* the loop over the users found for the head of chkTodo goes on with
\* "rest"; when it is over, the loop over the new spots goes on
ChkContinue(rest) ==
    IF SkipFalsy(rest) # <<>>
    THEN /\ chkUsers' = SkipFalsy(rest)
         /\ chkPc' = "send"
         /\ UNCHANGED <<chkSpots, chkLast, chkTodo, chkRaised>>
    ELSE IF Tail(chkTodo) # <<>>
         THEN /\ chkTodo' = Tail(chkTodo)
              /\ chkUsers' = <<>>
              /\ chkPc' = "notify"
              /\ UNCHANGED <<chkSpots, chkLast, chkRaised>>
         ELSE ChkEnd(FALSE)

\* scraper_loop calls check_for_new_spots: spots = await scrape_cisia()
ChkScrape ==
    /\ deployment = "backend"
    /\ chkPc = "idle"
    /\ cycles < MaxCycles
    /\ cycles' = cycles + 1
    /\ \E page \in Pages : chkSpots' = scrape_cisia(page)
    /\ chkPc' = "scraped"
    /\ chkRaised' = FALSE
    /\ alerts' = <<>>
    /\ UNCHANGED <<deployment, users, availability_snapshots, notifications,
                   chkLast, chkTodo, chkUsers, usersAtQuery>>
    /\ UNCHANGED <<routerVars, sideVars, gatewayVars, channelVars, botVars>>

\* last = await db.availability_snapshots.find_one(...)
ChkFindLast ==
    /\ chkPc = "scraped"
    /\ \/ /\ chkLast' = LatestSnapshot(availability_snapshots)
          /\ chkPc' = "loaded"
          /\ UNCHANGED <<chkSpots, chkTodo, chkUsers, chkRaised>>
       \/ ChkEnd(TRUE)
    /\ UNCHANGED <<deployment, users, availability_snapshots, notifications,
                   cycles, usersAtQuery, alerts>>
    /\ UNCHANGED <<routerVars, sideVars, gatewayVars, channelVars, botVars>>

\* SpotsToNotify where a first run notifies every available spot
SpotsToNotify_firstRunAll(last, available) ==
    IF last # <<>>
    THEN NewSpots(available, old_keys(last[1]))
    ELSE available

\* "if last:" and the spots of the loop over available that are notified;
\* none when find_one returned no snapshot
SpotsToNotify(last, available) ==
    IF last # <<>>
    THEN NewSpots(available, old_keys(last[1]))
    ELSE <<>>

\* ChkInsert that stores a snapshot only when the scrape returned spots
ChkInsert_onlyWithSpots ==
    /\ chkPc = "loaded"
    /\ \/ LET available == FilterAvailable(chkSpots)
              todo == SpotsToNotify(chkLast, available)
          IN  /\ availability_snapshots' =
                    IF chkSpots = <<>> THEN availability_snapshots
                    ELSE Append(availability_snapshots,
                                [timestamp |-> cycles,
                                 spots |-> chkSpots,
                                 available_count |-> Len(available)])
              /\ IF todo # <<>>
                 THEN /\ chkTodo' = todo
                      /\ chkPc' = "notify"
                      /\ UNCHANGED <<chkSpots, chkLast, chkUsers, chkRaised>>
                 ELSE ChkEnd(FALSE)
       \/ /\ ChkEnd(TRUE)
          /\ UNCHANGED availability_snapshots
    /\ UNCHANGED <<deployment, users, notifications, cycles, usersAtQuery, alerts>>
    /\ UNCHANGED <<routerVars, sideVars, gatewayVars, channelVars, botVars>>

\* await db.availability_snapshots.insert_one(...), then the computation of
\* old_keys and the loop over "available" up to its first new spot
ChkInsert ==
    /\ chkPc = "loaded"
    /\ \/ LET available == FilterAvailable(chkSpots)
              todo == SpotsToNotify(chkLast, available)
          IN  /\ availability_snapshots' =
                    Append(availability_snapshots,
                           [timestamp |-> cycles,
                            spots |-> chkSpots,
                            available_count |-> Len(available)])
              /\ IF todo # <<>>
                 THEN /\ chkTodo' = todo
                      /\ chkPc' = "notify"
                      /\ UNCHANGED <<chkSpots, chkLast, chkUsers, chkRaised>>
                 ELSE ChkEnd(FALSE)
       \/ /\ ChkEnd(TRUE)
          /\ UNCHANGED availability_snapshots
    /\ UNCHANGED <<deployment, users, notifications, cycles, usersAtQuery, alerts>>
    /\ UNCHANGED <<routerVars, sideVars, gatewayVars, channelVars, botVars>>

\* notify_users_about_spot(spot): users = await db.users.find(...).to_list()
NotifyFind ==
    /\ chkPc = "notify"
    /\ \/ /\ usersAtQuery' = users
          /\ ChkContinue(FindAlertUsers(users))
       \/ /\ ChkEnd(TRUE)
          /\ UNCHANGED usersAtQuery
    /\ UNCHANGED <<deployment, users, availability_snapshots, notifications,
                   cycles, alerts>>
    /\ UNCHANGED <<routerVars, sideVars, gatewayVars, channelVars, botVars>>

\* NotifySend without the test "if success"
NotifySend_recordAlways ==
    /\ chkPc = "send"
    /\ \E success \in BOOLEAN :
          /\ alerts' = Append(alerts,
                [snap |-> Len(availability_snapshots),
                 user_id |-> Head(chkUsers).user_id,
                 chat_id |-> Head(chkUsers).telegram_chat_id,
                 university |-> Head(chkTodo).university,
                 test_date |-> Head(chkTodo).test_date,
                 delivered |-> success])
          /\ IF TRUE
             THEN /\ chkPc' = "record"
                  /\ UNCHANGED <<chkSpots, chkLast, chkTodo, chkUsers, chkRaised>>
             ELSE ChkContinue(Tail(chkUsers))
    /\ UNCHANGED <<deployment, users, availability_snapshots, notifications,
                   cycles, usersAtQuery>>
    /\ UNCHANGED <<routerVars, sideVars, gatewayVars, channelVars, botVars>>

\* success = await send_spot_alert(chat_id, spot)
NotifySend ==
    /\ chkPc = "send"
    /\ \E success \in BOOLEAN :
          /\ alerts' = Append(alerts,
                [snap |-> Len(availability_snapshots),
                 user_id |-> Head(chkUsers).user_id,
                 chat_id |-> Head(chkUsers).telegram_chat_id,
                 university |-> Head(chkTodo).university,
                 test_date |-> Head(chkTodo).test_date,
                 delivered |-> success])
          /\ IF success
             THEN /\ chkPc' = "record"
                  /\ UNCHANGED <<chkSpots, chkLast, chkTodo, chkUsers, chkRaised>>
             ELSE ChkContinue(Tail(chkUsers))
    /\ UNCHANGED <<deployment, users, availability_snapshots, notifications,
                   cycles, usersAtQuery>>
    /\ UNCHANGED <<routerVars, sideVars, gatewayVars, channelVars, botVars>>

\* await db.notifications.insert_one(...)
NotifyRecord ==
    /\ chkPc = "record"
    /\ \/ /\ notifications' = Append(notifications,
                [user_id |-> Head(chkUsers).user_id,
                 university |-> Head(chkTodo).university,
                 test_date |-> Head(chkTodo).test_date,
                 sent_at |-> cycles,
                 status |-> "sent"])
          /\ ChkContinue(Tail(chkUsers))
       \/ /\ ChkEnd(TRUE)
          /\ UNCHANGED notifications
    /\ UNCHANGED <<deployment, users, availability_snapshots, cycles,
                   usersAtQuery, alerts>>
    /\ UNCHANGED <<routerVars, sideVars, gatewayVars, channelVars, botVars>>

----------------------------------------------------------------------------
(* standalone bot: check_and_alert *)

backendVars == <<users, availability_snapshots, notifications, chkPc,
                 chkSpots, chkLast, chkTodo, chkUsers, chkRaised, usersAtQuery>>

\* {f"{s['university']}|{s['test_date']}" for s in spots if s["available"]}
BotAvailableKeys(spots) ==
    {Key(spots[i].university, spots[i].test_date) :
        i \in {j \in DOMAIN spots : spots[j].available}}

RECURSIVE BotNewRows(_, _)
\* the spots of "for spot in spots" that pass "key in new_spots"
BotNewRows(spots, new_spots) ==
    IF spots = <<>> THEN <<>>
    ELSE IF Key(Head(spots).university, Head(spots).test_date) \in new_spots
         THEN <<Head(spots)>> \o BotNewRows(Tail(spots), new_spots)
         ELSE BotNewRows(Tail(spots), new_spots)

\* "last_available = available", the log line and the sleep
BotEnd(spots) ==
    /\ last_available' = BotAvailableKeys(spots)
    /\ botHistory' = Append(botHistory, spots)
    /\ botPc' = "idle"
    /\ botSpots' = <<>>
    /\ botTodo' = <<>>
    /\ botChats' = {}

\* one iteration of "while True" up to its first send: the scrape, the set
\* difference with last_available and the guard "new_spots and subscribers"
BotScrape ==
    /\ deployment = "standalone"
    /\ botPc = "idle"
    /\ cycles < MaxCycles
    /\ cycles' = cycles + 1
    /\ \E page \in Pages :
          LET spots == bot_scrape_cisia(page)
              new_spots == BotAvailableKeys(spots) \ last_available
          IN  IF new_spots # {} /\ subscribers # {}
              THEN /\ botSpots' = spots
                   /\ botTodo' = BotNewRows(spots, new_spots)
                   /\ botChats' = subscribers
                   /\ botPc' = "send"
                   /\ UNCHANGED <<last_available, botHistory>>
              ELSE BotEnd(spots)
    /\ alerts' = <<>>
    /\ UNCHANGED <<deployment, subscribers>>
    /\ UNCHANGED <<routerVars, sideVars, gatewayVars, channelVars, backendVars>>

\* await app.bot.send_message(chat_id, msg): it returns, or it raises and
\* the chat is discarded from subscribers
BotSend ==
    /\ botPc = "send"
    /\ \E chat_id \in botChats, sent \in BOOLEAN :
          LET subs == IF sent THEN subscribers ELSE subscribers \ {chat_id}
              rest == botChats \ {chat_id}
          IN  /\ alerts' = Append(alerts,
                    [snap |-> Len(botHistory) + 1,
                     user_id |-> chat_id,
                     chat_id |-> chat_id,
                     university |-> Head(botTodo).university,
                     test_date |-> Head(botTodo).test_date,
                     delivered |-> sent])
              /\ subscribers' = subs
              /\ IF rest # {}
                 THEN /\ botChats' = rest
                      /\ UNCHANGED <<last_available, botPc, botSpots, botTodo,
                                     botHistory>>
                 ELSE IF Tail(botTodo) # <<>> /\ subs # {}
                      THEN /\ botTodo' = Tail(botTodo)
                           /\ botChats' = subs
                           /\ UNCHANGED <<last_available, botPc, botSpots,
                                          botHistory>>
                      ELSE BotEnd(botSpots)
    /\ UNCHANGED <<deployment, cycles>>
    /\ UNCHANGED <<routerVars, sideVars, gatewayVars, channelVars, backendVars>>

----------------------------------------------------------------------------
(* backend: webhook registration, health check, shutdown *)

\* f"/api/telegram/webhook/{WEBHOOK_SECRET}"
WEBHOOK_PATH == "/hook"

\* REACT_APP_BACKEND_URL when it can be determined
BaseUrl == "B"

\* f"{base_url}{WEBHOOK_PATH}"
WebhookUrl(base) == base \o WEBHOOK_PATH

\* a callback URL that is not this deployment's
OtherUrl == "X/hook"

\* the processes that run register_webhook
RegCallers == {"lifespan", "health", "force"}

\* a call frame of register_webhook: position, requests made so far, the
\* local "success", the url read back, the value returned
NoReg == [pc |-> "none", log |-> <<>>, success |-> FALSE, info_url |-> "unread",
          result |-> "none"]

Request(req, by) == [req |-> req, by |-> by]

\* what the provider may hold when it is next asked: what the last request
\* left, nothing, or a callback set by someone else
Drift(url) == {url, "", OtherUrl}

\* last_error_message and pending_update_count the provider may report
Deliveries ==
    { [last_error_message |-> "", pending_update_count |-> 0],
      [last_error_message |-> "", pending_update_count |-> 10],
      [last_error_message |-> "", pending_update_count |-> 11],
      [last_error_message |-> "Connection refused", pending_update_count |-> 0] }

\* the report register_webhook is followed with: of the info it reads back
\* it uses the url only (pending_update_count is logged)
NoBacklog == [last_error_message |-> "", pending_update_count |-> 0]

EmptyDict == [k \in {} |-> ""]

\* get_webhook_info: result["result"] when the call is ok, {} otherwise
get_webhook_info(ok, url, d) ==
    IF ok
    THEN [url |-> url, last_error_message |-> d.last_error_message,
          pending_update_count |-> d.pending_update_count]
    ELSE EmptyDict

\* dict.get(key, default)
Get(dict, key, default) == IF key \in DOMAIN dict THEN dict[key] ELSE default

\* Issues with the backlog threshold at 5
Issues_pendingOver5(info, expected_url) ==
    LET current_url == Get(info, "url", "")
        last_error == Get(info, "last_error_message", "")
        pending == Get(info, "pending_update_count", 0)
    IN  (IF current_url = "" THEN {"No webhook URL set"}
         ELSE IF current_url # expected_url THEN {"Wrong webhook URL"} ELSE {})
        \cup (IF last_error # "" THEN {"Last error"} ELSE {})
        \cup (IF pending > 5 THEN {"Too many pending updates"} ELSE {})

\* the list "issues" of health_check_and_repair
Issues(info, expected_url) ==
    LET current_url == Get(info, "url", "")
        last_error == Get(info, "last_error_message", "")
        pending == Get(info, "pending_update_count", 0)
    IN  (IF current_url = "" THEN {"No webhook URL set"}
         ELSE IF current_url # expected_url THEN {"Wrong webhook URL"} ELSE {})
        \cup (IF last_error # "" THEN {"Last error"} ELSE {})
        \cup (IF pending > 10 THEN {"Too many pending updates"} ELSE {})

\* "while state.health_checker_running" after an iteration
HcLoop(running) == IF running THEN "sleep" ELSE "exited"

\* what a return of register_webhook to its caller may change
returnVars == <<last_webhook_check, lastHealthyAt, lsPc, hcPc, frPc, frResponse,
                health_checker_running, health_checks_passed,
                health_checks_failed>>

botMainVars == <<WEBHOOK_URL, webhookMode, pollingMode, horizon>>

\* RegReturn where a failed repair ends the health checker
RegReturn_fatal(p, success) ==
    /\ last_webhook_check' = IF success \/ p = "health" THEN now
                             ELSE last_webhook_check
    /\ lastHealthyAt' = IF success THEN now ELSE lastHealthyAt
    /\ IF p = "lifespan"
       THEN /\ lsPc' = "running"
            /\ health_checker_running' = TRUE
            /\ hcPc' = "sleep"
            /\ UNCHANGED <<frPc, frResponse, health_checks_passed,
                           health_checks_failed>>
       ELSE IF p = "health"
       THEN /\ health_checks_passed' = health_checks_passed + (IF success THEN 1 ELSE 0)
            /\ health_checks_failed' = health_checks_failed + (IF success THEN 0 ELSE 1)
            /\ hcPc' = IF success THEN HcLoop(health_checker_running) ELSE "exited"
            /\ UNCHANGED <<lsPc, frPc, frResponse, health_checker_running>>
       ELSE /\ frResponse' = [status |-> IF success THEN "success" ELSE "failed",
                              webhook_url |-> webhook_url]
            /\ frPc' = "idle"
            /\ UNCHANGED <<lsPc, hcPc, health_checker_running,
                           health_checks_passed, health_checks_failed>>

\* register_webhook returns "success" to the process p that called it
RegReturn(p, success) ==
    /\ last_webhook_check' = IF success \/ p = "health" THEN now
                             ELSE last_webhook_check
    /\ lastHealthyAt' = IF success THEN now ELSE lastHealthyAt
    /\ IF p = "lifespan"
       THEN \* lifespan: create_task(health_checker_loop(base_url))
            /\ lsPc' = "running"
            /\ health_checker_running' = TRUE
            /\ hcPc' = "sleep"
            /\ UNCHANGED <<frPc, frResponse, health_checks_passed,
                           health_checks_failed>>
       ELSE IF p = "health"
       THEN \* health_check_and_repair: count the outcome; the loop goes on
            /\ health_checks_passed' = health_checks_passed + (IF success THEN 1 ELSE 0)
            /\ health_checks_failed' = health_checks_failed + (IF success THEN 0 ELSE 1)
            /\ hcPc' = HcLoop(health_checker_running)
            /\ UNCHANGED <<lsPc, frPc, frResponse, health_checker_running>>
       ELSE \* force_reregister_webhook: the response
            /\ frResponse' = [status |-> IF success THEN "success" ELSE "failed",
                              webhook_url |-> webhook_url]
            /\ frPc' = "idle"
            /\ UNCHANGED <<lsPc, hcPc, health_checker_running,
                           health_checks_passed, health_checks_failed>>

\* register_webhook: "await delete_webhook()" and the sleep of 1 s
RegDelete(p) ==
    /\ reg[p].pc = "delete"
    /\ lsPc # "stopped"
    /\ \E ok \in BOOLEAN : provUrl' = IF ok THEN "" ELSE provUrl
    /\ webhook_registered' = FALSE
    /\ reg' = [reg EXCEPT ![p].pc = "set_delete",
                          ![p].log = @ \o <<Request("deleteWebhook", "delete_webhook"),
                                            Request("sleep", "register_webhook")>>]
    /\ UNCHANGED <<base_url, webhook_url, auto_recoveries, hcIssues, hcInfo, now, frCalls>>
    /\ UNCHANGED <<returnVars, botMainVars>>
    /\ UNCHANGED <<gatewayVars, dispatchVars, routerVars, sideVars>>

\* SetDelete without the deleteWebhook call: the URL is replaced in place
SetDelete_inPlace(p) ==
    /\ reg[p].pc = "set_delete"
    /\ lsPc # "stopped"
    /\ reg' = [reg EXCEPT ![p].pc = "set_set"]
    /\ UNCHANGED <<base_url, provUrl, webhook_registered, webhook_url,
                   auto_recoveries, hcIssues, hcInfo, now, frCalls>>
    /\ UNCHANGED <<returnVars, botMainVars>>
    /\ UNCHANGED <<gatewayVars, dispatchVars, routerVars, sideVars>>

\* set_webhook: the deleteWebhook call and the sleep of 0.5 s
SetDelete(p) ==
    /\ reg[p].pc = "set_delete"
    /\ lsPc # "stopped"
    /\ \E ok \in BOOLEAN : provUrl' = IF ok THEN "" ELSE provUrl
    /\ reg' = [reg EXCEPT ![p].pc = "set_set",
                          ![p].log = @ \o <<Request("deleteWebhook", "set_webhook"),
                                            Request("sleep", "set_webhook")>>]
    /\ UNCHANGED <<base_url, webhook_registered, webhook_url, auto_recoveries,
                   hcIssues, hcInfo, now, frCalls>>
    /\ UNCHANGED <<returnVars, botMainVars>>
    /\ UNCHANGED <<gatewayVars, dispatchVars, routerVars, sideVars>>

\* SetSet where a repair whose setWebhook call failed is not counted
SetSet_failureUncounted(p) ==
    /\ reg[p].pc = "set_set"
    /\ lsPc # "stopped"
    /\ \E ok \in BOOLEAN :
          IF ok
          THEN /\ provUrl' = WebhookUrl(base_url)
               /\ webhook_registered' = TRUE
               /\ webhook_url' = WebhookUrl(base_url)
               /\ reg' = [reg EXCEPT ![p].pc = "verify",
                                     ![p].success = TRUE,
                                     ![p].log = @ \o <<Request("setWebhook", "set_webhook"),
                                                       Request("sleep", "register_webhook")>>]
               /\ UNCHANGED returnVars
          ELSE /\ reg' = [reg EXCEPT ![p].pc = "none",
                                     ![p].success = FALSE,
                                     ![p].result = "False",
                                     ![p].log = @ \o <<Request("setWebhook", "set_webhook")>>]
               /\ UNCHANGED <<provUrl, webhook_registered, webhook_url>>
               /\ IF p = "health"
                  THEN /\ hcPc' = HcLoop(health_checker_running)
                       /\ last_webhook_check' = now
                       /\ UNCHANGED <<lastHealthyAt, lsPc, frPc, frResponse,
                                      health_checker_running,
                                      health_checks_passed, health_checks_failed>>
                  ELSE RegReturn(p, FALSE)
    /\ UNCHANGED <<base_url, auto_recoveries, hcIssues, hcInfo, now, frCalls>>
    /\ UNCHANGED botMainVars
    /\ UNCHANGED <<gatewayVars, dispatchVars, routerVars, sideVars>>

\* set_webhook: the setWebhook call; on success the state is updated and
\* register_webhook sleeps 1 s before it verifies, on failure it returns
SetSet(p) ==
    /\ reg[p].pc = "set_set"
    /\ lsPc # "stopped"
    /\ \E ok \in BOOLEAN :
          IF ok
          THEN /\ provUrl' = WebhookUrl(base_url)
               /\ webhook_registered' = TRUE
               /\ webhook_url' = WebhookUrl(base_url)
               /\ reg' = [reg EXCEPT ![p].pc = "verify",
                                     ![p].success = TRUE,
                                     ![p].log = @ \o <<Request("setWebhook", "set_webhook"),
                                                       Request("sleep", "register_webhook")>>]
               /\ UNCHANGED returnVars
          ELSE /\ reg' = [reg EXCEPT ![p].pc = "none",
                                     ![p].success = FALSE,
                                     ![p].result = "False",
                                     ![p].log = @ \o <<Request("setWebhook", "set_webhook")>>]
               /\ UNCHANGED <<provUrl, webhook_registered, webhook_url>>
               /\ RegReturn(p, FALSE)
    /\ UNCHANGED <<base_url, auto_recoveries, hcIssues, hcInfo, now, frCalls>>
    /\ UNCHANGED botMainVars
    /\ UNCHANGED <<gatewayVars, dispatchVars, routerVars, sideVars>>

\* RegVerify without the comparison of the URL read back
RegVerify_noCompare(p) ==
    /\ reg[p].pc = "verify"
    /\ lsPc # "stopped"
    /\ \E ok \in BOOLEAN, url \in Drift(provUrl) :
          LET info == get_webhook_info(ok, url, NoBacklog)
          IN  /\ provUrl' = url
              /\ reg' = [reg EXCEPT ![p].pc = "none",
                                    ![p].info_url = Get(info, "url", "None"),
                                    ![p].result = "True",
                                    ![p].log = @ \o <<Request("getWebhookInfo", "get_webhook_info")>>]
              /\ RegReturn(p, TRUE)
    /\ UNCHANGED <<base_url, webhook_registered, webhook_url, auto_recoveries,
                   hcIssues, hcInfo, now, frCalls>>
    /\ UNCHANGED botMainVars
    /\ UNCHANGED <<gatewayVars, dispatchVars, routerVars, sideVars>>

\* register_webhook: info = await get_webhook_info(), the comparison of
\* info.get("url") with webhook_url, the return
RegVerify(p) ==
    /\ reg[p].pc = "verify"
    /\ lsPc # "stopped"
    /\ \E ok \in BOOLEAN, url \in Drift(provUrl) :
          LET info == get_webhook_info(ok, url, NoBacklog)
              verified == (Get(info, "url", "None") = WebhookUrl(base_url))
          IN  /\ provUrl' = url
              /\ reg' = [reg EXCEPT ![p].pc = "none",
                                    ![p].info_url = Get(info, "url", "None"),
                                    ![p].result = IF verified THEN "True" ELSE "False",
                                    ![p].log = @ \o <<Request("getWebhookInfo", "get_webhook_info")>>]
              /\ RegReturn(p, verified)
    /\ UNCHANGED <<base_url, webhook_registered, webhook_url, auto_recoveries,
                   hcIssues, hcInfo, now, frCalls>>
    /\ UNCHANGED botMainVars
    /\ UNCHANGED <<gatewayVars, dispatchVars, routerVars, sideVars>>

\* a process enters register_webhook
RegStart(p) ==
    reg' = [reg EXCEPT ![p] = [NoReg EXCEPT !.pc = "delete"]]

\* lifespan, startup: with a base URL, register the webhook (the health
\* checker is started when that returns); without one, log the error
LsStartup ==
    /\ deployment = "backend"
    /\ lsPc = "init"
    /\ IF base_url # ""
       THEN /\ RegStart("lifespan")
            /\ lsPc' = "registering"
       ELSE /\ lsPc' = "running"
            /\ UNCHANGED reg
    /\ UNCHANGED <<base_url, provUrl, webhook_registered, webhook_url,
                   last_webhook_check, lastHealthyAt, auto_recoveries, hcIssues, hcInfo,
                   now, frCalls>>
    /\ UNCHANGED <<hcPc, frPc, frResponse, health_checker_running,
                   health_checks_passed, health_checks_failed>>
    /\ UNCHANGED botMainVars
    /\ UNCHANGED <<gatewayVars, dispatchVars, routerVars, sideVars>>

\* lifespan, shutdown: the running flags are cleared
LsShutdown ==
    /\ lsPc = "running"
    /\ lsPc' = "stopping"
    /\ health_checker_running' = FALSE
    /\ UNCHANGED <<base_url, provUrl, webhook_registered, webhook_url,
                   last_webhook_check, lastHealthyAt, auto_recoveries, hcIssues, hcInfo,
                   now, frCalls, reg>>
    /\ UNCHANGED <<hcPc, frPc, frResponse, health_checks_passed,
                   health_checks_failed>>
    /\ UNCHANGED botMainVars
    /\ UNCHANGED <<gatewayVars, dispatchVars, routerVars, sideVars>>

\* lifespan, shutdown: "await delete_webhook()", then the process ends
LsDeleteWebhook ==
    /\ lsPc = "stopping"
    /\ lsPc' = "stopped"
    /\ \E ok \in BOOLEAN : provUrl' = IF ok THEN "" ELSE provUrl
    /\ webhook_registered' = FALSE
    /\ UNCHANGED <<base_url, webhook_url, last_webhook_check, lastHealthyAt,
                   auto_recoveries, hcIssues, hcInfo, now, frCalls, reg>>
    /\ UNCHANGED <<hcPc, frPc, frResponse, health_checker_running,
                   health_checks_passed, health_checks_failed>>
    /\ UNCHANGED botMainVars
    /\ UNCHANGED <<gatewayVars, dispatchVars, routerVars, sideVars>>

\* lifespan, shutdown: "await delete_webhook()" and the return, with the
\* event loop still running: the tasks that lifespan created are neither
\* cancelled nor awaited and go on
LsDeleteWebhookReturns ==
    /\ lsPc = "stopping"
    /\ lsPc' = "returned"
    /\ \E ok \in BOOLEAN : provUrl' = IF ok THEN "" ELSE provUrl
    /\ webhook_registered' = FALSE
    /\ UNCHANGED <<base_url, webhook_url, last_webhook_check, lastHealthyAt,
                   auto_recoveries, hcIssues, hcInfo, now, frCalls, reg>>
    /\ UNCHANGED <<hcPc, frPc, frResponse, health_checker_running,
                   health_checks_passed, health_checks_failed>>
    /\ UNCHANGED botMainVars
    /\ UNCHANGED <<gatewayVars, dispatchVars, routerVars, sideVars>>

\* after lifespan has returned the host closes the event loop, at a moment
\* of its own choosing: the tasks still under way take no further step
LsExit ==
    /\ lsPc = "returned"
    /\ lsPc' = "stopped"
    /\ UNCHANGED <<base_url, provUrl, webhook_registered, webhook_url,
                   last_webhook_check, lastHealthyAt, auto_recoveries, hcIssues,
                   hcInfo, now, frCalls, reg>>
    /\ UNCHANGED <<hcPc, frPc, frResponse, health_checker_running,
                   health_checks_passed, health_checks_failed>>
    /\ UNCHANGED botMainVars
    /\ UNCHANGED <<gatewayVars, dispatchVars, routerVars, sideVars>>

\* HcCheck that gives the webhook up for polling once the issues have
\* lasted 120 s
HcCheck_switchAtThreshold ==
    /\ hcPc = "sleep"
    /\ lsPc # "stopped"
    /\ now < horizon
    /\ now' = now + HealthInterval
    /\ \E ok \in BOOLEAN, url \in Drift(provUrl), d \in Deliveries :
          LET info == get_webhook_info(ok, url, d)
              issues == Issues(info, WebhookUrl(base_url))
          IN  /\ hcIssues' = issues
              /\ hcInfo' = info
              /\ IF issues # {} /\ now' - lastHealthyAt >= 120
                 THEN /\ pollingMode' = TRUE
                      /\ provUrl' = ""
                      /\ webhook_registered' = FALSE
                      /\ health_checks_failed' = health_checks_failed + 1
                      /\ hcPc' = HcLoop(health_checker_running)
                      /\ reg' = [reg EXCEPT !["health"] = NoReg]
                      /\ UNCHANGED <<auto_recoveries, health_checks_passed,
                                     last_webhook_check, lastHealthyAt>>
                 ELSE IF issues # {}
                 THEN /\ provUrl' = url
                      /\ auto_recoveries' = auto_recoveries + 1
                      /\ RegStart("health")
                      /\ hcPc' = "repair"
                      /\ UNCHANGED <<health_checks_passed, health_checks_failed,
                                     last_webhook_check, lastHealthyAt,
                                     pollingMode, webhook_registered>>
                 ELSE /\ provUrl' = url
                      /\ health_checks_passed' = health_checks_passed + 1
                      /\ last_webhook_check' = now'
                      /\ lastHealthyAt' = now'
                      /\ hcPc' = HcLoop(health_checker_running)
                      /\ reg' = [reg EXCEPT !["health"] = NoReg]
                      /\ UNCHANGED <<auto_recoveries, health_checks_failed,
                                     pollingMode, webhook_registered>>
    /\ UNCHANGED <<base_url, webhook_url, frCalls, lsPc, frPc, frResponse,
                   health_checker_running, WEBHOOK_URL, webhookMode,
                   horizon>>
    /\ UNCHANGED <<gatewayVars, dispatchVars, routerVars, sideVars>>

\* health_checker_loop: the sleep of 30 s ends; health_check_and_repair reads
\* the webhook info and builds "issues"; with issues it counts a recovery
\* and calls register_webhook, without it counts a passed check
HcCheck ==
    /\ hcPc = "sleep"
    /\ lsPc # "stopped"
    /\ now < horizon
    /\ now' = now + HealthInterval
    /\ \E ok \in BOOLEAN, url \in Drift(provUrl), d \in Deliveries :
          LET info == get_webhook_info(ok, url, d)
              issues == Issues(info, WebhookUrl(base_url))
          IN  /\ hcIssues' = issues
              /\ hcInfo' = info
              /\ provUrl' = url
              /\ IF issues # {}
                 THEN /\ auto_recoveries' = auto_recoveries + 1
                      /\ RegStart("health")
                      /\ hcPc' = "repair"
                      /\ UNCHANGED <<health_checks_passed, health_checks_failed,
                                     last_webhook_check, lastHealthyAt>>
                 ELSE /\ health_checks_passed' = health_checks_passed + 1
                      /\ last_webhook_check' = now'
                      /\ lastHealthyAt' = now'
                      /\ hcPc' = HcLoop(health_checker_running)
                      /\ reg' = [reg EXCEPT !["health"] = NoReg]
                      /\ UNCHANGED <<auto_recoveries, health_checks_failed>>
    /\ UNCHANGED <<base_url, webhook_registered, webhook_url, frCalls, lsPc,
                   frPc, frResponse, health_checker_running>>
    /\ UNCHANGED botMainVars
    /\ UNCHANGED <<gatewayVars, dispatchVars, routerVars, sideVars>>

\* POST /telegram/force-reregister while the application serves requests
FrCall ==
    /\ lsPc = "running"
    /\ frPc = "idle"
    /\ frCalls < MaxForce
    /\ frCalls' = frCalls + 1
    /\ IF base_url # ""
       THEN /\ RegStart("force")
            /\ frPc' = "registering"
            /\ UNCHANGED frResponse
       ELSE /\ frResponse' = [status |-> "error", webhook_url |-> webhook_url]
            /\ UNCHANGED <<reg, frPc>>
    /\ UNCHANGED <<base_url, provUrl, webhook_registered, webhook_url,
                   last_webhook_check, lastHealthyAt, auto_recoveries, hcIssues, hcInfo,
                   now>>
    /\ UNCHANGED <<lsPc, hcPc, health_checker_running, health_checks_passed,
                   health_checks_failed>>
    /\ UNCHANGED botMainVars
    /\ UNCHANGED <<gatewayVars, dispatchVars, routerVars, sideVars>>

\* GET /health: the response, from the state at the time of the request
health ==
    [status |-> "healthy",
     webhook |-> [registered |-> webhook_registered, url |-> webhook_url],
     health_checks |-> [passed |-> health_checks_passed,
                        failed |-> health_checks_failed,
                        auto_recoveries |-> auto_recoveries],
     health_checker_running |-> health_checker_running]

----------------------------------------------------------------------------
(* standalone bot: main *)

\* BotMain with the "else" lost: polling is started in either case
BotMain_both ==
    /\ deployment = "standalone"
    /\ ~webhookMode /\ ~pollingMode
    /\ webhookMode' = (WEBHOOK_URL # "")
    /\ pollingMode' = TRUE
    /\ UNCHANGED <<base_url, provUrl, webhook_registered, webhook_url,
                   auto_recoveries, hcIssues, hcInfo, now, frCalls, reg, WEBHOOK_URL,
                   horizon>>
    /\ UNCHANGED returnVars
    /\ UNCHANGED <<gatewayVars, dispatchVars, routerVars, sideVars>>

\* main: run_webhook when WEBHOOK_URL is set, run_polling otherwise
BotMain ==
    /\ deployment = "standalone"
    /\ ~webhookMode /\ ~pollingMode
    /\ IF WEBHOOK_URL # ""
       THEN webhookMode' = TRUE /\ pollingMode' = FALSE
       ELSE webhookMode' = FALSE /\ pollingMode' = TRUE
    /\ UNCHANGED <<base_url, provUrl, webhook_registered, webhook_url,
                   auto_recoveries, hcIssues, hcInfo, now, frCalls, reg, WEBHOOK_URL,
                   horizon>>
    /\ UNCHANGED returnVars
    /\ UNCHANGED <<gatewayVars, dispatchVars, routerVars, sideVars>>

----------------------------------------------------------------------------
(* backend: webhook endpoint and message handling; bot: command handlers *)

\* the chat ids of inbound messages; 0 stands for a message without one
\* ("not chat_id" holds for it)
InboundChats == {1, 2}

\* str(chat_id), in the names the subscriber records use
StrOf(chat_id) == CASE chat_id = 1 -> "c1" [] chat_id = 2 -> "c2" [] OTHER -> "None"

\* what can follow a command in a message text
Suffixes == {"", " x", "us"}

\* text.startswith(prefix)
StartsWith(text, prefix) == \E rest \in Suffixes : text = prefix \o rest

\* the message texts sent to the backend
Texts == {"/start x", "/status", "/id", "/help", "/stop", "hello"}

\* the branch of the if / elif chain of handle_telegram_message
Command(text) ==
    IF StartsWith(text, "/start") THEN "start"
    ELSE IF StartsWith(text, "/status") THEN "status"
    ELSE IF StartsWith(text, "/id") THEN "id"
    ELSE IF StartsWith(text, "/help") THEN "help"
    ELSE IF StartsWith(text, "/stop") THEN "stop"
    ELSE "other"

\* "response" of handle_telegram_message: its headings and the chat id
\* where the text formats it in
Response(cmd, chat_id) ==
    CASE cmd = "start" ->
            <<"Welcome to CEnT-S Alert", "Your Chat ID is:", StrOf(chat_id),
              "Tap to copy">>
      [] cmd = "status" ->
            <<"Bot Status: ONLINE", "Your Chat ID:", StrOf(chat_id)>>
      [] cmd = "id" ->
            <<"Your Chat ID:", StrOf(chat_id)>>
      [] cmd = "help" ->
            <<"CEnT-S Alert Bot Commands", "Your Chat ID:", StrOf(chat_id)>>
      [] cmd = "stop" ->
            <<"Alerts disabled. Send /start to re-enable.">>
      [] OTHER ->
            <<"Your Chat ID:", StrOf(chat_id), "Commands: /start /status /help">>

\* db.users.update_many with every record switched off
UpdateMany_all(us, chat) ==
    [u \in DOMAIN us |-> [us[u] EXCEPT !.alert_telegram = FALSE]]

\* db.users.update_many({"telegram_chat_id": chat},
\*                      {"$set": {"alert_telegram": False}})
UpdateMany(us, chat) ==
    [u \in DOMAIN us |->
        IF us[u].telegram_chat_id = chat
        THEN [us[u] EXCEPT !.alert_telegram = FALSE]
        ELSE us[u]]

\* the bodies posted to the webhook endpoint: not JSON, an update without
\* "message", an update with a message
Requests ==
    {[kind |-> "unparsable", chat_id |-> 0, text |-> ""],
     [kind |-> "no_message", chat_id |-> 0, text |-> ""],
     [kind |-> "message", chat_id |-> 0, text |-> "/start x"]}
    \cup {[kind |-> "message", chat_id |-> c, text |-> t] :
             c \in InboundChats, t \in Texts}

\* telegram_webhook with an error status for a body it cannot parse
WebhookResponse_errorOnBadBody(req) ==
    IF req.kind = "unparsable" THEN [ok |-> FALSE] ELSE [ok |-> TRUE]

\* the value telegram_webhook returns: from the try block, or from the
\* except clause when request.json() raised
WebhookResponse(req) ==
    IF req.kind = "unparsable" THEN [ok |-> TRUE] ELSE [ok |-> TRUE]

\* the task created for handle_telegram_message(data["message"])
NewTask(req) ==
    [chat_id |-> req.chat_id, text |-> req.text, pc |-> "start",
     replies |-> <<>>, raised |-> FALSE,
     \* history: the handlers that had ended when this message came in
     ended |-> {i \in DOMAIN tasks : tasks[i].pc = "done"}]

\* the dispatcher's variables that message handling leaves alone
routerFrame == <<deployment, availability_snapshots, notifications, chkPc,
                 chkSpots, chkLast, chkTodo, chkUsers, cycles, chkRaised,
                 usersAtQuery, last_available, botPc, botSpots, botTodo,
                 botChats, botHistory, alerts>>

\* telegram_webhook handling requests one after the other: a request is
\* taken only when no handler is under way
WebhookRequest_awaitsHandler ==
    /\ deployment = "backend"
    /\ lsPc = "running"
    /\ received < MaxMsgs
    /\ \A i \in DOMAIN tasks : tasks[i].pc = "done"
    /\ received' = received + 1
    /\ \E req \in Requests :
          /\ acks' = Append(acks, [request |-> req.kind,
                                   response |-> WebhookResponse(req)])
          /\ tasks' = IF req.kind = "message"
                      THEN Append(tasks, NewTask(req))
                      ELSE tasks
    /\ UNCHANGED <<users, subscribers, routerFrame, messages_received_count>>
    /\ UNCHANGED <<gatewayVars, channelVars, sideVars>>

\* telegram_webhook: the body is parsed, a task is created for a message,
\* and the acknowledgment is returned
WebhookRequest ==
    /\ deployment = "backend"
    /\ lsPc = "running"
    /\ received < MaxMsgs
    /\ received' = received + 1
    /\ \E req \in Requests :
          /\ acks' = Append(acks, [request |-> req.kind,
                                   response |-> WebhookResponse(req)])
          /\ tasks' = IF req.kind = "message"
                      THEN Append(tasks, NewTask(req))
                      ELSE tasks
    /\ UNCHANGED <<users, subscribers, routerFrame, messages_received_count>>
    /\ UNCHANGED <<gatewayVars, channelVars, sideVars>>

\* handle_telegram_message up to its first await: without a chat id it
\* returns; /stop goes to the update of the users; every other text has its
\* response built
HandleStart(i) ==
    /\ i \in DOMAIN tasks
    /\ tasks[i].pc = "start"
    /\ LET t == tasks[i]
       IN  /\ tasks' = [tasks EXCEPT ![i] =
              IF t.chat_id = 0
              THEN [t EXCEPT !.pc = "done"]
              ELSE IF Command(t.text) = "stop"
              THEN [t EXCEPT !.pc = "update"]
              ELSE [t EXCEPT !.pc = "send"]]
           /\ messages_received_count' =
                 IF t.chat_id = 0 THEN messages_received_count
                 ELSE messages_received_count + 1
    /\ UNCHANGED <<received, acks, users, subscribers, routerFrame>>
    /\ UNCHANGED <<gatewayVars, channelVars, sideVars>>

\* /stop: await db.users.update_many(...); it returns, or it raises and the
\* except clause of the handler logs the error
HandleUpdate(i) ==
    /\ i \in DOMAIN tasks
    /\ tasks[i].pc = "update"
    /\ \/ /\ users' = UpdateMany(users, StrOf(tasks[i].chat_id))
          /\ tasks' = [tasks EXCEPT ![i].pc = "send"]
       \/ /\ tasks' = [tasks EXCEPT ![i].pc = "done", ![i].raised = TRUE]
          /\ UNCHANGED users
    /\ UNCHANGED <<received, acks, subscribers, routerFrame,
                   messages_received_count>>
    /\ UNCHANGED <<gatewayVars, channelVars, sideVars>>

\* await send_message(chat_id, response)
HandleSend(i) ==
    /\ i \in DOMAIN tasks
    /\ tasks[i].pc = "send"
    /\ tasks' = [tasks EXCEPT
                   ![i].pc = "done",
                   ![i].replies = <<Response(Command(tasks[i].text),
                                             tasks[i].chat_id)>>]
    /\ UNCHANGED <<received, acks, users, subscribers, routerFrame,
                   messages_received_count>>
    /\ UNCHANGED <<gatewayVars, channelVars, sideVars>>

\* the message texts sent to the bot
BotTexts == {"/start", "/status", "/id", "/help", "/stop", "/check", "hello"}

\* the replies of the handler the bot runs for a text: their headings and
\* the chat id where the text formats it in
BotReplies(text, chat_id) ==
    CASE text = "/start" ->
            <<<<"Welcome", "Your Chat ID:", StrOf(chat_id),
                "You're now subscribed to CENT@CASA alerts!">>>>
      [] text = "/status" ->
            <<<<"Bot Status: ONLINE", "Your ID:", StrOf(chat_id)>>>>
      [] text = "/id" ->
            <<<<StrOf(chat_id)>>>>
      [] text = "/help" ->
            <<<<"CEnT-S Alert Bot", "/start - Get your Chat ID & subscribe",
                "/stop - Unsubscribe from alerts">>>>
      [] text = "/stop" ->
            <<<<"You've been unsubscribed. Send /start to re-subscribe.">>>>
      [] text = "/check" ->
            <<<<"Checking CISIA...">>, <<"No spots available.">>>>
      [] OTHER ->
            <<<<"Your Chat ID:", StrOf(chat_id), "Send /help for commands.">>>>

\* the bot handles one update: start subscribes the chat, stop discards
\* it, every handler replies
BotUpdate ==
    /\ deployment = "standalone"
    /\ received < MaxMsgs
    /\ received' = received + 1
    /\ \E chat_id \in InboundChats, text \in BotTexts :
          /\ subscribers' = IF text = "/start"
                            THEN subscribers \cup {StrOf(chat_id)}
                            ELSE IF text = "/stop"
                            THEN subscribers \ {StrOf(chat_id)}
                            ELSE subscribers
          /\ tasks' = Append(tasks,
                [chat_id |-> chat_id, text |-> text, pc |-> "done",
                 replies |-> BotReplies(text, chat_id), raised |-> FALSE,
                 ended |-> DOMAIN tasks])
    /\ UNCHANGED <<acks, users, routerFrame, messages_received_count>>
    /\ UNCHANGED <<gatewayVars, channelVars, sideVars>>

----------------------------------------------------------------------------
(* one scrape and the selection of the available spots *)

RECURSIVE BotFilterAvailable(_)
\* [s for s in spots if s["available"]]
BotFilterAvailable(spots) ==
    IF spots = <<>> THEN <<>>
    ELSE IF Head(spots).available
         THEN <<Head(spots)>> \o BotFilterAvailable(Tail(spots))
         ELSE BotFilterAvailable(Tail(spots))

scraperFrame == <<gatewayVars, dispatchVars, channelVars, routerVars, cycleVars, diffVars,
                  authVars>>

\* server.py: spots = await scrape_cisia(), then the list "available"
ScrapeBackend ==
    /\ deployment = "backend"
    /\ scrPc = "fetch"
    /\ scrSpots' =
          IF fetchOutcome # "ok" THEN <<>>   \* http.get / raise_for_status
          ELSE scrape_cisia([kind |-> IF hasTable THEN "table" ELSE "notable",
                             rows |-> RowsDone(pageRows, failAt)])
    /\ scrAvailable' = FilterAvailable(scrSpots')
    /\ scrPc' = "done"
    /\ UNCHANGED <<fetchOutcome, hasTable, pageRows, failAt, scraperFrame>>

\* bot.py: spots = await scrape_cisia(), then the list "available"
ScrapeBot ==
    /\ deployment = "standalone"
    /\ scrPc = "fetch"
    /\ scrSpots' =
          IF fetchOutcome = "raised" THEN <<>>   \* http.get
          ELSE bot_scrape_cisia([kind |-> IF hasTable THEN "table" ELSE "notable",
                                 rows |-> RowsDone(pageRows, failAt)])
    /\ scrAvailable' = BotFilterAvailable(scrSpots')
    /\ scrPc' = "done"
    /\ UNCHANGED <<fetchOutcome, hasTable, pageRows, failAt, scraperFrame>>

----------------------------------------------------------------------------
(* the diff of two snapshots *)

\* the spots of a snapshot, as the backend and as the bot hold them
SpotLists ==
    UNION {[1..n -> {ParseRow(row) : row \in RowPool}] : n \in 0..MaxDiffRows}

BotSpotLists ==
    UNION {[1..n -> {BotParseRow(row) : row \in RowPool}] : n \in 0..MaxDiffRows}

\* the keys of the spots of a list
KeysOf(spots) ==
    {Key(spots[i].university, spots[i].test_date) : i \in DOMAIN spots}

\* NewKeys that stops at the first new spot
NewKeys_firstOnly(prev, cur) ==
    IF deployment = "backend"
    THEN LET new == NewSpots(FilterAvailable(cur), old_keys([spots |-> prev]))
         IN  IF new = <<>> THEN {} ELSE KeysOf(<<Head(new)>>)
    ELSE LET new == BotAvailableKeys(cur) \ BotAvailableKeys(prev)
         IN  IF new = {} THEN {}
             ELSE {Key(cur[i].university, cur[i].test_date) :
                     i \in {CHOOSE j \in DOMAIN cur :
                               /\ Key(cur[j].university, cur[j].test_date) \in new
                               /\ \A k \in 1..(j - 1) :
                                     Key(cur[k].university, cur[k].test_date)
                                        \notin new}}

\* the keys the diff finds newly available: server.py, the keys that pass
\* "key not in old_keys" in the loop over available; bot.py,
\* available - last_available, last_available being the set "available" of
\* the preceding iteration
NewKeys(prev, cur) ==
    IF deployment = "backend"
    THEN KeysOf(NewSpots(FilterAvailable(cur), old_keys([spots |-> prev])))
    ELSE BotAvailableKeys(cur) \ BotAvailableKeys(prev)

\* the rows of a list in another order
Reordered(spots) ==
    {[i \in DOMAIN spots |-> spots[p[i]]] : p \in Permutations(DOMAIN spots)}

diffFrame == <<gatewayVars, dispatchVars, channelVars, routerVars, cycleVars, scraperVars,
               authVars>>

\* the diff runs on the pair
DiffRun ==
    /\ diffPc = "first"
    /\ diffFirst' = NewKeys(diffPrev, diffCur)
    /\ diffPc' = "second"
    /\ UNCHANGED <<diffPrev, diffCur, diffSecond, diffFrame>>

\* the diff runs again on the same pair, its rows in any order
DiffRerun ==
    /\ diffPc = "second"
    /\ \E prev \in Reordered(diffPrev), cur \in Reordered(diffCur) :
          diffSecond' = NewKeys(prev, cur)
    /\ diffPc' = "done"
    /\ UNCHANGED <<diffPrev, diffCur, diffFirst, diffFrame>>

----------------------------------------------------------------------------
(* backend: get_current_user and the endpoints behind it *)

NoToken == "None"      \* no cookie, no session found
Tokens == {"t1", "t2", "tx"}
Times == 1..3

\* the cookie session_token: absent, empty, or a token
Cookies == {NoToken, ""} \cup Tokens

\* the Authorization header: absent (""), of another scheme, or Bearer
\* followed by a token or by nothing
AuthHeaders == {"", "Basic t1", "Bearer "} \cup {"Bearer " \o tok : tok \in Tokens}

\* raise HTTPException(401, "Not authenticated")
NotAuthenticated == [status |-> 401, user |-> "None"]

\* auth[7:] when auth.startswith('Bearer '), "" otherwise
BearerToken(auth) ==
    IF \E tok \in Tokens \cup {""} : auth = "Bearer " \o tok
    THEN CHOOSE tok \in Tokens \cup {""} : auth = "Bearer " \o tok
    ELSE ""

\* the session_token get_current_user looks up: the cookie, or the Bearer
\* token when "not session_token"
SessionToken(req) ==
    IF req.cookie \notin {NoToken, ""} THEN req.cookie
    ELSE BearerToken(req.authorization)

\* the stores of sessions: t1 is stored or not, for user u1; t2 is stored
\* or not, for u1 or for a user that is not in db.users; tx never is
SessionStores ==
    {[tok \in toks |-> IF tok = "t1" THEN [user_id |-> "u1", expires_at |-> e1]
                       ELSE [user_id |-> uid, expires_at |-> e2]] :
        toks \in SUBSET {"t1", "t2"}, e1 \in Times, e2 \in Times,
        uid \in {"u1", "ghost"}}

\* get_current_user without the test of expires_at
get_current_user_noExpiry(req, sessions, us, at) ==
    LET session_token == SessionToken(req)
    IN  IF session_token = "" THEN NoToken
        ELSE IF session_token \notin DOMAIN sessions THEN NoToken
        ELSE IF sessions[session_token].user_id \notin DOMAIN us THEN NoToken
        ELSE sessions[session_token].user_id

\* get_current_user: the user_id of the user returned, NoToken for None
get_current_user(req, sessions, us, at) ==
    LET session_token == SessionToken(req)
    IN  IF session_token = "" THEN NoToken
        ELSE IF session_token \notin DOMAIN sessions THEN NoToken
        ELSE IF sessions[session_token].expires_at < at THEN NoToken
        ELSE IF sessions[session_token].user_id \notin DOMAIN us THEN NoToken
        ELSE sessions[session_token].user_id

authFrame == <<gatewayVars, channelVars, routerVars, cycleVars, scraperVars, diffVars,
               subscribers, routerFrame>>

\* GET /auth/me
GetMe ==
    /\ authPc = "request"
    /\ LET user == get_current_user(authReq, user_sessions, users, authNow)
       IN  authResp' = IF user = NoToken THEN NotAuthenticated
                       ELSE [status |-> 200, user |-> user]
    /\ authPc' = "done"
    /\ UNCHANGED <<user_sessions, authNow, authReq, users, authFrame>>

\* PUT /users/alerts
UpdateAlerts ==
    /\ authPc = "request"
    /\ LET user == get_current_user(authReq, user_sessions, users, authNow)
       IN  IF user = NoToken
           THEN /\ authResp' = NotAuthenticated
                /\ UNCHANGED users
           ELSE /\ \E alert_telegram \in BOOLEAN :
                      users' = [users EXCEPT ![user].alert_telegram = alert_telegram]
                /\ authResp' = [status |-> 200, user |-> user]
    /\ authPc' = "done"
    /\ UNCHANGED <<user_sessions, authNow, authReq, authFrame>>

----------------------------------------------------------------------------
(* backend: check_for_new_spots called by scraper_loop and by a refresh *)

\* the two callers of check_for_new_spots: the loop and the background task
\* that refresh_availability adds for an authenticated operator
Runs == {"scraper_loop", "refresh_availability"}

\* what the two calls fetch: the pages of at most one row
CyclePages == {page \in Pages : Len(page.rows) <= 1}

\* the locals of one call before its first statement
IdleRun ==
    [pc |-> "idle", spots |-> <<>>, last |-> <<>>, todo |-> <<>>, users |-> <<>>]

cycleFrame == <<gatewayVars, channelVars, routerVars, scraperVars, diffVars,
                authVars, deployment, users, chkPc, chkSpots, chkLast, chkTodo,
                chkUsers, cycles, chkRaised, usersAtQuery, subscribers,
                last_available, botPc, botSpots, botTodo, botChats, botHistory>>

\* the call of p returns (or its exception is logged)
RunEnd(p) == run' = [run EXCEPT ![p] = [IdleRun EXCEPT !.pc = "done"]]

\* the loop over the users of p goes on with "rest", then the loop over its
\* new spots
RunContinue(p, rest) ==
    IF SkipFalsy(rest) # <<>>
    THEN run' = [run EXCEPT ![p].users = SkipFalsy(rest), ![p].pc = "send"]
    ELSE IF Tail(run[p].todo) # <<>>
         THEN run' = [run EXCEPT ![p].todo = Tail(@), ![p].users = <<>>,
                                 ![p].pc = "notify"]
         ELSE RunEnd(p)

\* spots = await scrape_cisia()
RunScrape(p) ==
    /\ run[p].pc = "idle"
    /\ \E page \in CyclePages :
          /\ run' = [run EXCEPT ![p].spots = scrape_cisia(page),
                                ![p].pc = "scraped"]
          /\ scrapes' = Append(scrapes,
                               KeysOf(FilterAvailable(scrape_cisia(page))))
    /\ UNCHANGED <<availability_snapshots, notifications, alerts, cycleFrame>>

\* last = await db.availability_snapshots.find_one(...)
RunFindLast(p) ==
    /\ run[p].pc = "scraped"
    /\ \/ run' = [run EXCEPT ![p].last = LatestSnapshot(availability_snapshots),
                             ![p].pc = "loaded"]
       \/ RunEnd(p)
    /\ UNCHANGED <<availability_snapshots, notifications, alerts, scrapes,
                   cycleFrame>>

\* await db.availability_snapshots.insert_one(...), then old_keys and the
\* loop over "available" up to its first new spot
RunInsert(p) ==
    /\ run[p].pc = "loaded"
    /\ \/ LET available == FilterAvailable(run[p].spots)
              todo == SpotsToNotify(run[p].last, available)
          IN  /\ availability_snapshots' =
                    Append(availability_snapshots,
                           [timestamp |-> Len(availability_snapshots),
                            spots |-> run[p].spots,
                            available_count |-> Len(available)])
              /\ IF todo # <<>>
                 THEN run' = [run EXCEPT ![p].todo = todo, ![p].pc = "notify"]
                 ELSE RunEnd(p)
       \/ /\ RunEnd(p)
          /\ UNCHANGED availability_snapshots
    /\ UNCHANGED <<notifications, alerts, scrapes, cycleFrame>>

\* notify_users_about_spot(spot): users = await db.users.find(...).to_list()
RunNotifyFind(p) ==
    /\ run[p].pc = "notify"
    /\ \/ RunContinue(p, FindAlertUsers(users))
       \/ RunEnd(p)
    /\ UNCHANGED <<availability_snapshots, notifications, alerts, scrapes,
                   cycleFrame>>

\* success = await send_spot_alert(chat_id, spot)
RunSend(p) ==
    /\ run[p].pc = "send"
    /\ \E success \in BOOLEAN :
          /\ alerts' = Append(alerts,
                [snap |-> Len(availability_snapshots),
                 user_id |-> Head(run[p].users).user_id,
                 chat_id |-> Head(run[p].users).telegram_chat_id,
                 university |-> Head(run[p].todo).university,
                 test_date |-> Head(run[p].todo).test_date,
                 delivered |-> success])
          /\ IF success
             THEN run' = [run EXCEPT ![p].pc = "record"]
             ELSE RunContinue(p, Tail(run[p].users))
    /\ UNCHANGED <<availability_snapshots, notifications, scrapes, cycleFrame>>

\* await db.notifications.insert_one(...)
RunRecord(p) ==
    /\ run[p].pc = "record"
    /\ \/ /\ notifications' = Append(notifications,
                [user_id |-> Head(run[p].users).user_id,
                 university |-> Head(run[p].todo).university,
                 test_date |-> Head(run[p].todo).test_date,
                 sent_at |-> cycles,
                 status |-> "sent"])
          /\ RunContinue(p, Tail(run[p].users))
       \/ /\ RunEnd(p)
          /\ UNCHANGED notifications
    /\ UNCHANGED <<availability_snapshots, alerts, scrapes, cycleFrame>>

----------------------------------------------------------------------------
(* Initial states and specifications *)

ChatIds == {"c1", "c2"}

\* the subscriber records the cycles run against: u1 has chat id c1; u2
\* has none, an empty one or c2; at least one of them has alerts on, and u2
\* has alerts off only with chat id c2
UserConfigs ==
    {us \in [UserIds -> [telegram_chat_id : {NoChat, "", "c1", "c2"},
                         alert_telegram : BOOLEAN]] :
        /\ us["u1"].telegram_chat_id = "c1"
        /\ us["u2"].telegram_chat_id # "c1"
        /\ us["u2"].alert_telegram \/ us["u2"].telegram_chat_id = "c2"
        /\ us["u1"].alert_telegram
              \/ (us["u2"].alert_telegram /\ us["u2"].telegram_chat_id = "c2")}

NoUsers ==
    [u \in UserIds |-> [telegram_chat_id |-> NoChat, alert_telegram |-> FALSE]]

RouterOff ==
    /\ received = 0
    /\ acks = <<>>
    /\ tasks = <<>>
    /\ messages_received_count = 0

ScraperOff ==
    /\ fetchOutcome = "ok"
    /\ hasTable = FALSE
    /\ pageRows = <<>>
    /\ failAt = 0
    /\ scrPc = "done"
    /\ scrSpots = <<>>
    /\ scrAvailable = <<>>

DiffOff ==
    /\ diffPrev = <<>>
    /\ diffCur = <<>>
    /\ diffPc = "done"
    /\ diffFirst = {}
    /\ diffSecond = {}

AuthOff ==
    /\ user_sessions = <<>>
    /\ authNow = 1
    /\ authReq = [cookie |-> NoToken, authorization |-> ""]
    /\ authPc = "done"
    /\ authResp = [status |-> 0, user |-> "None"]

CyclesOff ==
    /\ run = [p \in Runs |-> [IdleRun EXCEPT !.pc = "done"]]
    /\ scrapes = <<>>

GatewayOff ==
    /\ TELEGRAM_BOT_TOKEN = TRUE
    /\ apiPc = "idle"
    /\ attempt = 0
    /\ apiOutcomes = <<>>
    /\ apiSleeps = <<>>
    /\ apiResult = NoResult
    /\ errors_count = 0
    /\ errorsAtCall = 0
    /\ callsMade = 0

\* no cycle under way, nothing stored, c cycles counted
DispatchAt(c) ==
    /\ availability_snapshots = <<>>
    /\ notifications = <<>>
    /\ chkPc = "idle"
    /\ chkSpots = <<>>
    /\ chkLast = <<>>
    /\ chkTodo = <<>>
    /\ chkUsers = <<>>
    /\ cycles = c
    /\ chkRaised = FALSE
    /\ last_available = {}
    /\ botPc = "idle"
    /\ botSpots = <<>>
    /\ botTodo = <<>>
    /\ botChats = {}
    /\ botHistory = <<>>
    /\ alerts = <<>>

DispatchIdle == DispatchAt(0)

\* the channel without a base URL, lifespan at ls
ChannelIdle(ls) ==
    /\ base_url = ""
    /\ provUrl = ""
    /\ webhook_registered = FALSE
    /\ webhook_url = "None"
    /\ last_webhook_check = 0
    /\ auto_recoveries = 0
    /\ health_checks_passed = 0
    /\ health_checks_failed = 0
    /\ health_checker_running = FALSE
    /\ lsPc = ls
    /\ hcPc = "off"
    /\ hcIssues = {}
    /\ hcInfo = EmptyDict
    /\ frPc = "idle"
    /\ frResponse = [status |-> "none", webhook_url |-> "None"]
    /\ reg = [p \in RegCallers |-> NoReg]
    /\ now = 0
    /\ lastHealthyAt = 0
    /\ frCalls = 0
    /\ horizon = 0
    /\ WEBHOOK_URL = ""
    /\ webhookMode = FALSE
    /\ pollingMode = FALSE

ChannelOff == ChannelIdle("init")

DispatchOff ==
    /\ deployment = "none"
    /\ users = NoUsers
    /\ usersAtQuery = NoUsers
    /\ subscribers = {}
    /\ DispatchIdle

InitGateway ==
    /\ DispatchOff
    /\ RouterOff
    /\ ScraperOff
    /\ DiffOff
    /\ AuthOff
    /\ CyclesOff
    /\ ChannelOff
    /\ TELEGRAM_BOT_TOKEN \in BOOLEAN
    /\ apiPc = "idle"
    /\ attempt = 0
    /\ apiOutcomes = <<>>
    /\ apiSleeps = <<>>
    /\ apiResult = NoResult
    /\ errors_count = 0
    /\ errorsAtCall = 0
    /\ callsMade = 0

NextGateway ==
    \/ ApiCall
    \/ ApiAttemptOk
    \/ ApiAttemptRateLimited
    \/ ApiAttemptFailed
    \/ ApiBackoff
    \/ ApiExhausted
    \/ ApiReturn

SpecGateway == InitGateway /\ [][NextGateway]_vars

\* the database and the subscriber set are as some earlier run left them:
\* no snapshot yet (first run), any subscriber records
InitDispatch ==
    /\ GatewayOff
    /\ RouterOff
    /\ ScraperOff
    /\ DiffOff
    /\ AuthOff
    /\ CyclesOff
    /\ ChannelOff
    /\ DispatchIdle
    /\ \/ /\ deployment = "backend"
          /\ users \in UserConfigs
          /\ usersAtQuery = users
          /\ subscribers = {}
       \/ /\ deployment = "standalone"
          /\ users = NoUsers
          /\ usersAtQuery = NoUsers
          /\ subscribers \in SUBSET ChatIds

NextDispatch ==
    \/ ChkScrape
    \/ ChkFindLast
    \/ ChkInsert
    \/ NotifyFind
    \/ NotifySend
    \/ NotifyRecord
    \/ BotScrape
    \/ BotSend

SpecDispatch == InitDispatch /\ [][NextDispatch]_vars

\* SystemState() as constructed, no process started
ChannelStart ==
    /\ GatewayOff
    /\ RouterOff
    /\ ScraperOff
    /\ DiffOff
    /\ AuthOff
    /\ CyclesOff
    /\ DispatchIdle
    /\ users = NoUsers
    /\ usersAtQuery = NoUsers
    /\ subscribers = {}
    /\ webhook_registered = FALSE
    /\ webhook_url = "None"
    /\ last_webhook_check = 0
    /\ auto_recoveries = 0
    /\ health_checks_passed = 0
    /\ health_checks_failed = 0
    /\ health_checker_running = FALSE
    /\ lsPc = "init"
    /\ hcPc = "off"
    /\ hcIssues = {}
    /\ hcInfo = EmptyDict
    /\ frPc = "idle"
    /\ frResponse = [status |-> "none", webhook_url |-> "None"]
    /\ reg = [p \in RegCallers |-> NoReg]
    /\ now = 0
    /\ lastHealthyAt = 0
    /\ frCalls = 0
    /\ webhookMode = FALSE
    /\ pollingMode = FALSE

\* the backend: the base URL is found or not; the provider holds no
\* callback or a foreign one
BackendStart ==
    /\ deployment = "backend"
    /\ base_url \in {"", BaseUrl}
    /\ provUrl \in {"", OtherUrl}
    /\ WEBHOOK_URL = ""

\* the standalone bot: WEBHOOK_URL is set or not
BotStart ==
    /\ deployment = "standalone"
    /\ base_url = ""
    /\ provUrl = ""
    /\ WEBHOOK_URL \in {"", "W"}

InitChannel ==
    /\ ChannelStart
    /\ horizon = MaxOpChecks * HealthInterval
    /\ (BackendStart \/ BotStart)

NextChannel ==
    \/ LsStartup
    \/ \E p \in RegCallers : RegDelete(p)
    \/ \E p \in RegCallers : SetDelete(p)
    \/ \E p \in RegCallers : SetSet(p)
    \/ \E p \in RegCallers : RegVerify(p)
    \/ HcCheck
    \/ FrCall
    \/ LsShutdown
    \/ LsDeleteWebhook
    \/ BotMain

SpecChannel == InitChannel /\ [][NextChannel]_vars

\* the channel with both ends of a shutdown: the process ends as soon as
\* delete_webhook has returned, or the event loop runs on for a while
NextShutdown ==
    \/ NextChannel
    \/ LsDeleteWebhookReturns
    \/ LsExit

SpecShutdown == InitChannel /\ [][NextShutdown]_vars

\* the backend left alone: startup and the health checker
InitWatchdog ==
    /\ ChannelStart
    /\ horizon = MaxChecks * HealthInterval
    /\ BackendStart

NextWatchdog ==
    \/ LsStartup
    \/ \E p \in RegCallers : RegDelete(p)
    \/ \E p \in RegCallers : SetDelete(p)
    \/ \E p \in RegCallers : SetSet(p)
    \/ \E p \in RegCallers : RegVerify(p)
    \/ HcCheck

SpecWatchdog == InitWatchdog /\ [][NextWatchdog]_vars

\* SystemState() as constructed, the base URL found, nothing registered
WatchdogFresh ==
    /\ webhook_registered = FALSE
    /\ webhook_url = "None"
    /\ last_webhook_check = 0
    /\ auto_recoveries = 0
    /\ health_checks_passed = 0
    /\ health_checks_failed = 0
    /\ health_checker_running = FALSE
    /\ lsPc = "init"
    /\ hcPc = "off"
    /\ hcIssues = {}
    /\ hcInfo = EmptyDict
    /\ frPc = "idle"
    /\ frResponse = [status |-> "none", webhook_url |-> "None"]
    /\ reg = [p \in RegCallers |-> NoReg]
    /\ now = 0
    /\ lastHealthyAt = 0
    /\ frCalls = 0
    /\ webhookMode = FALSE
    /\ pollingMode = FALSE
    /\ base_url = BaseUrl
    /\ provUrl \in {"", OtherUrl}
    /\ WEBHOOK_URL = ""

\* both subscribers have alerts on and a chat id
BothSubscribed ==
    [u \in UserIds |-> [telegram_chat_id |-> IF u = "u1" THEN "c1" ELSE "c2",
                        alert_telegram |-> TRUE]]

\* the three background loops, each followed on its own: scraper_loop of a
\* backend started without a base URL and check_and_alert of the bot, for
\* two iterations each, and health_checker_loop of a backend whose scraper
\* is not followed
InitLoops ==
    /\ GatewayOff
    /\ RouterOff
    /\ ScraperOff
    /\ DiffOff
    /\ AuthOff
    /\ CyclesOff
    /\ \/ /\ deployment = "backend"
          /\ users = BothSubscribed
          /\ usersAtQuery = users
          /\ subscribers = {}
          /\ DispatchAt(MaxCycles - 2)
          /\ ChannelIdle("running")
       \/ /\ deployment = "standalone"
          /\ users = NoUsers
          /\ usersAtQuery = NoUsers
          /\ subscribers = ChatIds
          /\ DispatchAt(MaxCycles - 2)
          /\ ChannelIdle("init")
       \/ /\ deployment = "backend"
          /\ users = NoUsers
          /\ usersAtQuery = NoUsers
          /\ subscribers = {}
          /\ DispatchAt(MaxCycles)
          /\ WatchdogFresh
          /\ horizon = MaxChecks * HealthInterval

NextLoops ==
    \/ NextDispatch
    \/ NextWatchdog

SpecLoops == InitLoops /\ [][NextLoops]_vars

\* the subscriber records a message is handled against: the chat ids of
\* u1 and u2 differ or are the same
RouterUsers ==
    {[u \in UserIds |-> [telegram_chat_id |-> IF u = "u1" THEN "c1" ELSE c,
                         alert_telegram |-> TRUE]] : c \in {"c1", "c2"}}

\* the backend serving requests after a startup, or the bot with some
\* subscribers; the scrapers are not followed
InitRouter ==
    /\ GatewayOff
    /\ RouterOff
    /\ ScraperOff
    /\ DiffOff
    /\ AuthOff
    /\ CyclesOff
    /\ DispatchAt(MaxCycles)
    /\ usersAtQuery = NoUsers
    /\ \/ /\ deployment = "backend"
          /\ users \in RouterUsers
          /\ subscribers = {}
          /\ ChannelIdle("running")
       \/ /\ deployment = "standalone"
          /\ users = NoUsers
          /\ subscribers \in {{}, ChatIds}
          /\ ChannelIdle("init")

NextRouter ==
    \/ WebhookRequest
    \/ \E i \in 1..MaxMsgs : HandleStart(i)
    \/ \E i \in 1..MaxMsgs : HandleUpdate(i)
    \/ \E i \in 1..MaxMsgs : HandleSend(i)
    \/ BotUpdate

SpecRouter == InitRouter /\ [][NextRouter]_vars

\* the backend or the bot, up and with nothing else under way
PureStart ==
    /\ DispatchAt(MaxCycles)
    /\ users = NoUsers
    /\ usersAtQuery = NoUsers
    /\ subscribers = {}
    /\ \/ deployment = "backend" /\ ChannelIdle("running")
       \/ deployment = "standalone" /\ ChannelIdle("init")

\* the backend or the bot is about to scrape
InitScraper ==
    /\ GatewayOff
    /\ RouterOff
    /\ DiffOff
    /\ AuthOff
    /\ CyclesOff
    /\ PureStart
    /\ \E in \in ScrapeInputs :
          /\ fetchOutcome = in.fetch
          /\ hasTable = in.table
          /\ pageRows = in.rows
          /\ failAt = in.failAt
    /\ scrPc = "fetch"
    /\ scrSpots = <<>>
    /\ scrAvailable = <<>>

NextScraper == ScrapeBackend \/ ScrapeBot

SpecScraper == InitScraper /\ [][NextScraper]_vars

\* the backend or the bot is about to compare two snapshots
InitDiff ==
    /\ GatewayOff
    /\ RouterOff
    /\ ScraperOff
    /\ AuthOff
    /\ CyclesOff
    /\ PureStart
    /\ \/ deployment = "backend" /\ diffPrev \in SpotLists /\ diffCur \in SpotLists
       \/ /\ deployment = "standalone"
          /\ diffPrev \in BotSpotLists
          /\ diffCur \in BotSpotLists
    /\ diffPc = "first"
    /\ diffFirst = {}
    /\ diffSecond = {}

NextDiff == DiffRun \/ DiffRerun

SpecDiff == InitDiff /\ [][NextDiff]_vars

\* the backend is about to serve a request to an authenticated endpoint
InitAuth ==
    /\ GatewayOff
    /\ RouterOff
    /\ ScraperOff
    /\ DiffOff
    /\ CyclesOff
    /\ DispatchAt(MaxCycles)
    /\ deployment = "backend"
    /\ ChannelIdle("running")
    /\ users = BothSubscribed
    /\ usersAtQuery = NoUsers
    /\ subscribers = {}
    /\ user_sessions \in SessionStores
    /\ authNow \in Times
    /\ authReq \in [cookie : Cookies, authorization : AuthHeaders]
    /\ authPc = "request"
    /\ authResp = [status |-> 0, user |-> "None"]

NextAuth == GetMe \/ UpdateAlerts

SpecAuth == InitAuth /\ [][NextAuth]_vars

\* an earlier cycle stored one snapshot of a page; the loop and a refresh of
\* an authenticated operator are both about to call check_for_new_spots
InitCycles ==
    /\ GatewayOff
    /\ RouterOff
    /\ ScraperOff
    /\ DiffOff
    /\ AuthOff
    /\ ChannelIdle("running")
    /\ deployment = "backend"
    /\ users \in UserConfigs
    /\ usersAtQuery = NoUsers
    /\ subscribers = {}
    /\ notifications = <<>>
    /\ chkPc = "idle"
    /\ chkSpots = <<>>
    /\ chkLast = <<>>
    /\ chkTodo = <<>>
    /\ chkUsers = <<>>
    /\ cycles = MaxCycles
    /\ chkRaised = FALSE
    /\ last_available = {}
    /\ botPc = "idle"
    /\ botSpots = <<>>
    /\ botTodo = <<>>
    /\ botChats = {}
    /\ botHistory = <<>>
    /\ alerts = <<>>
    /\ \E page \in CyclePages :
          /\ availability_snapshots =
                <<[timestamp |-> 0, spots |-> scrape_cisia(page),
                   available_count |-> Len(FilterAvailable(scrape_cisia(page)))]>>
          /\ scrapes = <<KeysOf(FilterAvailable(scrape_cisia(page)))>>
    /\ run = [p \in Runs |-> IdleRun]

NextCycles ==
    \E p \in Runs :
        \/ RunScrape(p)
        \/ RunFindLast(p)
        \/ RunInsert(p)
        \/ RunNotifyFind(p)
        \/ RunSend(p)
        \/ RunRecord(p)

SpecCycles == InitCycles /\ [][NextCycles]_vars

\* an earlier cycle scraped a page and kept what it found: the backend as
\* its latest snapshot, the standalone bot as last_available; two cycles
\* are still to run
InitRecover ==
    /\ GatewayOff
    /\ RouterOff
    /\ ScraperOff
    /\ DiffOff
    /\ AuthOff
    /\ CyclesOff
    /\ ChannelOff
    /\ notifications = <<>>
    /\ chkPc = "idle"
    /\ chkSpots = <<>>
    /\ chkLast = <<>>
    /\ chkTodo = <<>>
    /\ chkUsers = <<>>
    /\ cycles = MaxCycles - 2
    /\ chkRaised = FALSE
    /\ botPc = "idle"
    /\ botSpots = <<>>
    /\ botTodo = <<>>
    /\ botChats = {}
    /\ alerts = <<>>
    /\ \E page \in CyclePages :
          \/ /\ deployment = "backend"
             /\ users \in UserConfigs
             /\ usersAtQuery = users
             /\ subscribers = {}
             /\ availability_snapshots =
                   <<[timestamp |-> cycles, spots |-> scrape_cisia(page),
                      available_count |->
                          Len(FilterAvailable(scrape_cisia(page)))]>>
             /\ last_available = {}
             /\ botHistory = <<>>
          \/ /\ deployment = "standalone"
             /\ users = NoUsers
             /\ usersAtQuery = NoUsers
             /\ subscribers \in SUBSET ChatIds
             /\ availability_snapshots = <<>>
             /\ last_available = BotAvailableKeys(bot_scrape_cisia(page))
             /\ botHistory = <<bot_scrape_cisia(page)>>

SpecRecover == InitRecover /\ [][NextDispatch]_vars

\* both chats get alerts, the earlier cycle found no spot, one cycle is
\* still to run and one inbound message is still to come
InitStop ==
    /\ GatewayOff
    /\ ScraperOff
    /\ DiffOff
    /\ AuthOff
    /\ CyclesOff
    /\ received = MaxMsgs - 1
    /\ acks = <<>>
    /\ tasks = <<>>
    /\ messages_received_count = 0
    /\ notifications = <<>>
    /\ chkPc = "idle"
    /\ chkSpots = <<>>
    /\ chkLast = <<>>
    /\ chkTodo = <<>>
    /\ chkUsers = <<>>
    /\ cycles = MaxCycles - 1
    /\ chkRaised = FALSE
    /\ last_available = {}
    /\ botPc = "idle"
    /\ botSpots = <<>>
    /\ botTodo = <<>>
    /\ botChats = {}
    /\ botHistory = <<>>
    /\ alerts = <<>>
    /\ \/ /\ deployment = "backend"
          /\ users = BothSubscribed
          /\ usersAtQuery = users
          /\ subscribers = {}
          /\ availability_snapshots =
                <<[timestamp |-> cycles, spots |-> <<>>, available_count |-> 0]>>
          /\ ChannelIdle("running")
       \/ /\ deployment = "standalone"
          /\ users = NoUsers
          /\ usersAtQuery = NoUsers
          /\ subscribers = ChatIds
          /\ availability_snapshots = <<>>
          /\ ChannelIdle("init")

NextStop ==
    \/ NextDispatch
    \/ NextRouter

SpecStop == InitStop /\ [][NextStop]_vars

\* the event loop runs every task that can take a step
FairSpecWatchdog == SpecWatchdog /\ WF_vars(NextWatchdog)

\* every step of a call is eventually taken: each step is a local
\* computation, a bounded sleep or an HTTP exchange with a 15 s timeout
FairSpecGateway == SpecGateway /\ WF_vars(NextGateway)

----------------------------------------------------------------------------
(* Properties of telegram_api *)

OrdinaryFailure == {"nonok", "timeout", "exc"}

OrdinaryFailures ==
    Cardinality({i \in DOMAIN apiOutcomes : apiOutcomes[i] \in OrdinaryFailure})

TelegramApiSafe ==
    /\ Len(apiOutcomes) <= 5
    /\ apiResult.kind \in {"none", "return"}
    /\ apiPc \in {"attempt", "backoff", "exhausted"} =>
          /\ apiResult = NoResult
          /\ errors_count = errorsAtCall
    /\ apiPc = "done" =>
          \/ /\ apiResult = OkResult
             /\ errors_count = errorsAtCall
          \/ /\ apiResult = TokenFailure
             /\ Len(apiOutcomes) = 0
             /\ errors_count = errorsAtCall
          \/ /\ apiResult = RetryFailure
             /\ Len(apiOutcomes) = 5
             /\ \A i \in DOMAIN apiOutcomes : apiOutcomes[i] # "ok"
             /\ errors_count = errorsAtCall + 1

\* C6: telegram_api never raises and always returns: whatever the attempts
\* do, it makes at most 5 of them and returns the ok result or a tagged
\* failure, and errors_count goes up by exactly 1 when, and only when, the
\* call fails after exhausting its attempts.
C6_TelegramApiTotal ==
    /\ []TelegramApiSafe
    /\ (apiPc \in {"attempt", "backoff", "exhausted"}) ~> (apiPc = "done")

\* a call that failed after five attempts, a 429 and an exception among them
C6_Witness ==
    /\ apiPc = "done"
    /\ apiResult = RetryFailure
    /\ errors_count = errorsAtCall + 1
    /\ \E i, j \in DOMAIN apiOutcomes :
          apiOutcomes[i] = "r429" /\ apiOutcomes[j] = "exc"

\* C7: for k < 5, a call whose first k attempts fail with a retryable
\* failure goes on to attempt k+1, and when that attempt succeeds the call
\* returns the success result and leaves errors_count unchanged.
C7_RetryThenSuccess ==
    LET n == Len(apiOutcomes) IN
    /\ ( /\ TELEGRAM_BOT_TOKEN
         /\ apiPc # "idle"
         /\ n < 5
         /\ \A i \in 1..n : apiOutcomes[i] \in OrdinaryFailure )
       => /\ apiPc \in {"attempt", "backoff"}
          /\ apiResult = NoResult
          /\ errors_count = errorsAtCall
    /\ ( /\ n >= 1
         /\ \A i \in 1..(n - 1) : apiOutcomes[i] \in OrdinaryFailure
         /\ apiOutcomes[n] = "ok" )
       => /\ apiPc \in {"done", "idle"}
          /\ apiResult = OkResult
          /\ errors_count = errorsAtCall

\* three retryable failures, then success on the fourth attempt
C7_Witness ==
    /\ apiPc = "done"
    /\ Len(apiOutcomes) = 4
    /\ \A i \in 1..3 : apiOutcomes[i] \in OrdinaryFailure
    /\ apiOutcomes[4] = "ok"
    /\ apiResult = OkResult

\* C8: a 429 response is not counted against the retry budget: the call
\* gives up only after 5 ordinary (non-429) failures.
C8_RateLimitNotCounted ==
    (apiPc = "exhausted" \/ apiResult = RetryFailure) => OrdinaryFailures = 5

----------------------------------------------------------------------------
(* Properties of the scrape-and-notify cycle *)

\* the rows of snapshot n: the n-th stored snapshot of the backend, the
\* n-th scrape result of the bot
SnapshotRows(n) ==
    IF deployment = "standalone" THEN botHistory[n]
    ELSE availability_snapshots[n].spots

\* the number of snapshots taken
SnapshotCount ==
    IF deployment = "standalone" THEN Len(botHistory)
    ELSE Len(availability_snapshots)

RowAvailable(row) ==
    IF deployment = "standalone" THEN row.available ELSE IsAvailable(row.status)

\* the spot key (university, test_date) is available in snapshot n
AvailableIn(n, university, test_date) ==
    \E i \in DOMAIN SnapshotRows(n) :
        /\ SnapshotRows(n)[i].university = university
        /\ SnapshotRows(n)[i].test_date = test_date
        /\ RowAvailable(SnapshotRows(n)[i])

\* the alerts of the cycle of snapshot n for one subscriber and one spot key
AlertsFor(n, user_id, university, test_date) ==
    {i \in DOMAIN alerts :
        /\ alerts[i].snap = n
        /\ alerts[i].user_id = user_id
        /\ alerts[i].university = university
        /\ alerts[i].test_date = test_date}

\* C1: no alert is sent in a cycle for a spot key that was available in the
\* immediately preceding snapshot (backend and standalone bot).
C1_NoDuplicateAlert ==
    \A i \in DOMAIN alerts :
        alerts[i].snap > 1 =>
            ~AvailableIn(alerts[i].snap - 1, alerts[i].university, alerts[i].test_date)

\* a second cycle that ran to its end with someone to alert: the spot was
\* available in both snapshots and nothing was sent
C1_Witness ==
    /\ chkPc = "idle" /\ botPc = "idle"
    /\ ~chkRaised
    /\ cycles = 2
    /\ SnapshotCount = 2
    /\ AvailableIn(1, "A", "C")
    /\ AvailableIn(2, "A", "C")
    /\ \/ \E user_id \in UserIds :
             users[user_id].alert_telegram /\ Truthy(users[user_id].telegram_chat_id)
       \/ subscribers # {}
    /\ alerts = <<>>

\* the subscribers the fan-out is meant for
Eligible(user_id) ==
    /\ users[user_id].alert_telegram
    /\ Truthy(users[user_id].telegram_chat_id)

\* C2: when a cycle of the backend has run to its end without an error, each
\* spot key available in its snapshot and not available in the preceding one
\* has been alerted exactly once to each eligible subscriber.
C2_ExactlyOneAlert ==
    ( /\ deployment = "backend"
      /\ chkPc = "idle"
      /\ ~chkRaised
      /\ cycles = Len(availability_snapshots)
      /\ Len(availability_snapshots) >= 2 )
    => LET n == Len(availability_snapshots) IN
       \A i \in DOMAIN SnapshotRows(n), user_id \in UserIds :
          ( /\ RowAvailable(SnapshotRows(n)[i])
            /\ ~AvailableIn(n - 1, SnapshotRows(n)[i].university,
                            SnapshotRows(n)[i].test_date)
            /\ Eligible(user_id) )
          => Cardinality(AlertsFor(n, user_id, SnapshotRows(n)[i].university,
                                   SnapshotRows(n)[i].test_date)) = 1

\* C3: a spot alert of the backend goes only to a subscriber who, when the
\* fan-out queried the users, had alerts enabled and a stored chat id, and
\* it goes to that chat id.
C3_OnlyEnabledSubscribers ==
    [][ (deployment = "backend" /\ Len(alerts') > Len(alerts))
        => LET a == alerts'[Len(alerts')] IN
           /\ usersAtQuery[a.user_id].alert_telegram
           /\ Truthy(usersAtQuery[a.user_id].telegram_chat_id)
           /\ a.chat_id = usersAtQuery[a.user_id].telegram_chat_id ]_vars

\* a new spot was alerted to u1 while u2, with a chat id and alerts off,
\* got nothing, in a finished cycle
C3_Witness ==
    /\ deployment = "backend"
    /\ chkPc = "idle"
    /\ ~users["u2"].alert_telegram
    /\ users["u2"].telegram_chat_id = "c2"
    /\ \E i \in DOMAIN alerts : alerts[i].user_id = "u1"
    /\ \A i \in DOMAIN alerts : alerts[i].user_id # "u2"

----------------------------------------------------------------------------
(* Properties of the delivery channel *)

ExpectedUrl == WebhookUrl(base_url)

\* a webhook callback of this program is registered: as the state records
\* it, as the provider holds it, or as run_webhook of the bot set it up
CallbackRegistered ==
    \/ webhook_registered
    \/ (base_url # "" /\ provUrl = ExpectedUrl)
    \/ webhookMode

\* C4: in every state, whatever the health checks found and whatever
\* repairs, forced re-registrations and shutdown took place, a registered
\* callback and a polling worker never coexist: the backend has no polling
\* worker at all, and the bot runs the one mode that WEBHOOK_URL selects.
C4_ModeInvariant ==
    /\ ~(CallbackRegistered /\ pollingMode)
    /\ (deployment = "backend" => ~pollingMode /\ ~webhookMode)
    /\ (deployment = "standalone" /\ (webhookMode \/ pollingMode))
          => /\ webhookMode = (WEBHOOK_URL # "")
             /\ pollingMode = (WEBHOOK_URL = "")

\* the backend, after a health check that found issues and repaired, and
\* after a forced re-registration that succeeded: the callback is
\* registered and nothing polls
C4_Witness ==
    /\ deployment = "backend"
    /\ auto_recoveries >= 1
    /\ reg["health"].result # "none"
    /\ frResponse.status = "success"
    /\ webhook_registered
    /\ provUrl = ExpectedUrl
    /\ ~pollingMode

\* time since the last health check without issues or verified registration
UnhealthyFor == now - lastHealthyAt

C9_UnregisterThenRegister ==
    \A p \in RegCallers :
       LET log == reg[p].log IN
       /\ \A i \in DOMAIN log :
             log[i].req = "setWebhook"
             => /\ i = 5
                /\ log[1] = Request("deleteWebhook", "delete_webhook")
                /\ log[2] = Request("sleep", "register_webhook")
                /\ log[3] = Request("deleteWebhook", "set_webhook")
                /\ log[4] = Request("sleep", "set_webhook")
       /\ (reg[p].pc = "verify" \/ reg[p].result # "none")
             => (Len(log) >= 5 /\ log[5].req = "setWebhook")

\* the repair of the health checker has just sent setWebhook
C9_Witness ==
    /\ reg["health"].pc = "verify"
    /\ reg["health"].log[5] = Request("setWebhook", "set_webhook")
    /\ webhook_registered

\* C10: a run of register_webhook that has returned, returned True exactly
\* when its setWebhook succeeded and the webhook info read after it gave
\* the expected URL; the read is the last request of such a run.
C10_VerifiedSuccess ==
    \A p \in RegCallers :
       LET f == reg[p] IN
       /\ (f.result # "none")
             => ((f.result = "True") <=> (f.success /\ f.info_url = ExpectedUrl))
       /\ (f.result = "True")
             => /\ Len(f.log) = 7
                /\ f.log[5].req = "setWebhook"
                /\ f.log[7].req = "getWebhookInfo"

\* startup registered and verified; a forced re-registration set the
\* webhook, read back another URL and reported failure; a repair of the
\* health checker set the webhook, could not read it back and failed
C10_Witness ==
    /\ reg["lifespan"].result = "True"
    /\ reg["force"].success
    /\ reg["force"].info_url = OtherUrl
    /\ reg["force"].result = "False"
    /\ frResponse.status = "failed"
    /\ reg["health"].success
    /\ reg["health"].info_url = "None"
    /\ reg["health"].result = "False"

----------------------------------------------------------------------------
(* Properties of the health checker *)

\* the registration status of the last health check, as it was read, shows
\* an issue
ReadShowsIssue ==
    \/ Get(hcInfo, "url", "") = ""
    \/ Get(hcInfo, "url", "") # ExpectedUrl
    \/ Get(hcInfo, "last_error_message", "") # ""
    \/ Get(hcInfo, "pending_update_count", 0) > 10

\* C11: a health check starts a repair (a run of register_webhook, the
\* mode staying as it is) exactly when the status it read has an empty URL,
\* a URL other than the expected one, a last error message or more than 10
\* pending updates; otherwise it makes no registration call and leaves the
\* recorded registration alone.
C11_RepairIffIssue ==
    [][ (now' # now)
        => /\ ReadShowsIssue'
                <=> (hcPc' = "repair" /\ reg'["health"].pc = "delete")
           /\ ~ReadShowsIssue'
                => /\ reg'["health"] = NoReg
                   /\ auto_recoveries' = auto_recoveries
                   /\ webhook_registered' = webhook_registered
                   /\ webhook_url' = webhook_url
           /\ pollingMode' = pollingMode /\ webhookMode' = webhookMode ]_vars

\* after an earlier repair, a check read the expected URL, no error and 10
\* pending updates, and made no registration call
C11_Witness ==
    /\ auto_recoveries >= 1
    /\ hcInfo = [url |-> ExpectedUrl, last_error_message |-> "",
                 pending_update_count |-> 10]
    /\ hcIssues = {}
    /\ hcPc = "sleep"
    /\ reg["health"] = NoReg

\* the times at which the health checker wakes up
Ticks == {k * HealthInterval : k \in 1..MaxChecks}

\* C12: a health check that finds issues adds exactly 1 to auto_recoveries
\* and nothing else changes that counter; a repair that fails is counted
\* and leaves the health checker in its loop; after every repair the
\* checker reaches its next tick, where C11 makes it repair again if the
\* issue is still there.
C12_FailuresCountedNotFatal ==
    /\ [][ /\ (now' # now /\ hcIssues' # {})
                => auto_recoveries' = auto_recoveries + 1
           /\ (now' = now \/ hcIssues' = {})
                => auto_recoveries' = auto_recoveries
           /\ (hcPc = "repair" /\ hcPc' # "repair")
                => /\ hcPc' = "sleep"
                   /\ health_checker_running'
                   /\ (reg'["health"].result = "False")
                        => health_checks_failed' = health_checks_failed + 1 ]_vars
    /\ \A t \in Ticks :
          (hcPc = "repair" /\ now = t /\ t < horizon)
             ~> (now = t + HealthInterval)

\* two repairs failed, the issue is still there and a third repair has
\* been started
C12_Witness ==
    /\ auto_recoveries = 3
    /\ health_checks_failed = 2
    /\ health_checks_passed = 0
    /\ hcIssues # {}
    /\ hcPc = "repair"
    /\ now = 3 * HealthInterval

----------------------------------------------------------------------------
(* Properties of the background loops *)

\* C13: each background loop is always inside an iteration or at its
\* sleep, never ended: an iteration under way can always take its next
\* step, whatever failed before, and a loop at its sleep whose running flag
\* is set starts another iteration (as long as the behaviour is followed).
C13_LoopsSurviveFailures ==
    /\ chkPc \in {"idle", "scraped", "loaded", "notify", "send", "record"}
    /\ botPc \in {"idle", "send"}
    /\ hcPc \in {"off", "sleep", "repair"}
    /\ (chkPc # "idle" \/ botPc # "idle" \/ hcPc = "repair")
          => ENABLED NextLoops
    /\ (deployment = "backend" /\ chkPc = "idle" /\ cycles < MaxCycles)
          => ENABLED ChkScrape
    /\ (deployment = "standalone" /\ botPc = "idle" /\ cycles < MaxCycles)
          => ENABLED BotScrape
    /\ (hcPc = "sleep" /\ now < horizon)
          => (health_checker_running /\ ENABLED HcCheck)

\* the first iteration of scraper_loop raised before it stored a snapshot;
\* the second iteration has scraped
C13_Witness ==
    /\ deployment = "backend"
    /\ cycles = MaxCycles
    /\ availability_snapshots = <<>>
    /\ chkPc = "scraped"


----------------------------------------------------------------------------
(* Inbound messages: replies, stop, acknowledgments *)

\* C14: every reply sent for an inbound message, whatever the command
\* (start, status, id, help, stop, or any other text), contains the chat id
\* of the sender.
C14_EveryReplyHasChatId ==
    \A i \in DOMAIN tasks :
        \A k \in DOMAIN tasks[i].replies :
            Contains(tasks[i].replies[k], <<StrOf(tasks[i].chat_id)>>)


\* C15: when a stop command from chat c has been handled, every subscriber
\* record with chat id c has alerts off, and the alert flag and the chat id
\* of every subscriber with another chat id are as they were.
C15_StopDisablesOnlySender ==
    [][ /\ \A i \in DOMAIN tasks :
              (tasks[i].pc = "update" /\ tasks'[i].pc = "send")
              => LET c == StrOf(tasks[i].chat_id)
                 IN  \A u \in UserIds :
                        /\ users'[u].telegram_chat_id = users[u].telegram_chat_id
                        /\ users[u].telegram_chat_id = c
                              => ~users'[u].alert_telegram
                        /\ users[u].telegram_chat_id # c
                              => users'[u].alert_telegram = users[u].alert_telegram
        /\ (deployment = "standalone" /\ Len(tasks') = Len(tasks) + 1
              /\ tasks'[Len(tasks')].text = "/stop")
              => LET c == StrOf(tasks'[Len(tasks')].chat_id)
                 IN  /\ c \notin subscribers'
                     /\ subscribers' \ {c} = subscribers \ {c} ]_vars

\* chat 1 sent /stop and got its reply: u1 has alerts off, u2 with chat id
\* c2 still has them on
C15_Witness ==
    /\ deployment = "backend"
    /\ \E i \in DOMAIN tasks :
          /\ tasks[i].chat_id = 1
          /\ tasks[i].text = "/stop"
          /\ tasks[i].pc = "done"
          /\ tasks[i].replies # <<>>
    /\ users["u1"].telegram_chat_id = "c1" /\ ~users["u1"].alert_telegram
    /\ users["u2"].telegram_chat_id = "c2" /\ users["u2"].alert_telegram


\* C16: for every inbound message with a chat id, handling attempts a reply
\* to that chat, also when a step of handling the command (the update of
\* the users that stop performs) fails.
C16_AlwaysAttemptsReply ==
    \A i \in DOMAIN tasks :
        (tasks[i].pc = "done" /\ tasks[i].chat_id # 0)
        => tasks[i].replies # <<>>


\* C17: the webhook endpoint answers every request with {ok: true}: an
\* update with a message, an update without one, a body that cannot be
\* parsed; and the answer given stays what it was when the message handler
\* it started fails later.
C17_AlwaysAcknowledges ==
    /\ [](deployment = "backend" =>
            /\ Len(acks) = received
            /\ \A k \in DOMAIN acks : acks[k].response = [ok |-> TRUE])
    /\ [][ \A k \in DOMAIN acks : k \in DOMAIN acks' /\ acks'[k] = acks[k] ]_vars

\* a message whose handler raised after its acknowledgment, then a body that
\* could not be parsed: both got {ok: true}
C17_Witness ==
    /\ Len(acks) = 2
    /\ acks[1] = [request |-> "message", response |-> [ok |-> TRUE]]
    /\ acks[2] = [request |-> "unparsable", response |-> [ok |-> TRUE]]
    /\ Len(tasks) = 1
    /\ tasks[1].raised


\* C18: handling one inbound message never blocks taking the next: the
\* webhook handler has acknowledged every request it took whatever the
\* handlers it started are doing, it can take a further request while they
\* are under way, and a handler can take its step while an earlier one is
\* still waiting for its reply to be sent.
C18_HandlingDoesNotBlockIngestion ==
    deployment = "backend" =>
        /\ Len(acks) = received
        /\ received < MaxMsgs => ENABLED WebhookRequest
        /\ \A i \in DOMAIN tasks :
              /\ tasks[i].pc = "start" => ENABLED HandleStart(i)
              /\ tasks[i].pc = "update" => ENABLED HandleUpdate(i)
              /\ tasks[i].pc = "send" => ENABLED HandleSend(i)

\* the reply of the first message is still being sent; the second request
\* was acknowledged and its message handled to the end
C18_Witness ==
    /\ deployment = "backend"
    /\ Len(tasks) = 2
    /\ tasks[1].pc = "send"
    /\ Len(acks) = 2
    /\ tasks[2].pc = "done"
    /\ tasks[2].replies # <<>>


----------------------------------------------------------------------------
(* One scrape: the link-presence rule and the row filter *)

\* the row became a spot of this scrape
Scraped(row) ==
    IF deployment = "backend" THEN Retained(row) ELSE BotRetained(row)

\* the rows of the table that became a spot and hold a link in their
\* status cell
ScrapedWithLink ==
    {i \in DOMAIN pageRows : Scraped(pageRows[i]) /\ pageRows[i].has_link}

\* C19: link-presence rule: a scraped spot is counted as available and can
\* be alerted on if and only if its status cell held a hyperlink; the text
\* of the status cell alone never makes a spot available.
C19_AvailableIffLink ==
    (scrPc = "done" /\ fetchOutcome = "ok" /\ hasTable /\ failAt = 0)
    => Len(scrAvailable) = Cardinality(ScrapedWithLink)

\* the rows of the table with seven cells or more and CENT@CASA in the
\* first one
WithTargetMarker ==
    {i \in DOMAIN pageRows :
        /\ pageRows[i].ncells >= 7
        /\ Contains(Upper(Chars(pageRows[i].type)), Chars("CENT@CASA"))}

\* C20: the scraper retains a row if and only if the row has at least seven
\* cells and the text of its first cell contains CENT@CASA, in any case;
\* rows of every other exam type are dropped.
C20_RetainedIffTargetType ==
    (scrPc = "done" /\ fetchOutcome = "ok" /\ hasTable /\ failAt = 0)
    => Len(scrSpots) = Cardinality(WithTargetMarker)


\* the scrape met a failure: no response, an error status, no table, or an
\* exception at one of the rows
ScrapeFailed ==
    fetchOutcome # "ok" \/ ~hasTable \/ failAt > 0

\* C21: a network or parse failure during a scrape, wherever it occurs
\* (fetch, HTTP error status, missing table, a row after rows that were
\* parsed), makes scrape_cisia return the empty list.
C21_FailureGivesEmpty ==
    (scrPc = "done" /\ ScrapeFailed) => scrSpots = <<>>


----------------------------------------------------------------------------
(* The snapshot history and the notification records *)

\* C22: every scrape cycle of the backend whose calls of the snapshot store
\* return appends exactly one snapshot to the history, whatever the scrape
\* returned and whether or not anything changed; the preceding snapshot is
\* loaded before the new one is stored, so the diff never compares the new
\* snapshot with itself.
C22_OneSnapshotPerCycle ==
    /\ [](deployment = "backend" =>
            /\ \A i, j \in DOMAIN availability_snapshots :
                  i < j => availability_snapshots[i].timestamp
                             < availability_snapshots[j].timestamp
            /\ \A i \in DOMAIN availability_snapshots :
                  availability_snapshots[i].timestamp \in 1..cycles
            /\ chkPc \in {"notify", "send", "record"}
                  => /\ availability_snapshots # <<>>
                     /\ availability_snapshots[Len(availability_snapshots)].timestamp
                           = cycles
                     /\ chkLast # <<>>
                     /\ chkLast[1].timestamp < cycles)
    /\ [][ deployment = "backend" =>
            /\ (chkPc = "loaded" /\ ~chkRaised')
                  => /\ Len(availability_snapshots')
                           = Len(availability_snapshots) + 1
                     /\ chkLast = LatestSnapshot(availability_snapshots)
            /\ availability_snapshots' # availability_snapshots
                  => /\ chkPc = "loaded"
                     /\ \E snap \in {availability_snapshots'[Len(availability_snapshots')]} :
                           /\ availability_snapshots'
                                 = Append(availability_snapshots, snap)
                           /\ snap.timestamp = cycles
                           /\ snap.spots = chkSpots ]_vars

\* two cycles ran to their end on pages without spots: two snapshots
C22_Witness ==
    /\ deployment = "backend"
    /\ chkPc = "idle"
    /\ ~chkRaised
    /\ cycles = 2
    /\ Len(availability_snapshots) = 2
    /\ availability_snapshots[1].spots = <<>>
    /\ availability_snapshots[2].spots = <<>>


\* the records written in the cycle under way
RecordsOfCycle == {i \in DOMAIN notifications : notifications[i].sent_at = cycles}

\* the spot alerts of the cycle under way that were sent successfully
DeliveredOfCycle == {i \in DOMAIN alerts : alerts[i].delivered}

----------------------------------------------------------------------------
(* The diff of two snapshots *)

\* C24: the newly available keys are a function of the pair (preceding
\* snapshot, current snapshot): a second run of the diff on the same pair
\* gives the same key set, whatever the order of the rows, and the set is
\* the available keys of the current snapshot less those of the preceding.
C24_DiffIsFunctionOfPair ==
    /\ diffPc = "done" => diffSecond = diffFirst
    /\ diffPc \in {"second", "done"}
          => diffFirst =
               {Key(diffCur[i].university, diffCur[i].test_date) :
                   i \in {j \in DOMAIN diffCur : RowAvailable(diffCur[j])}}
               \ {Key(diffPrev[i].university, diffPrev[i].test_date) :
                   i \in {j \in DOMAIN diffPrev : RowAvailable(diffPrev[j])}}

\* both runs found the one new key of a snapshot of two spots, of which the
\* other was available before
C24_Witness ==
    /\ diffPc = "done"
    /\ Len(diffCur) = 2
    /\ diffCur[1] # diffCur[2]
    /\ Cardinality(diffFirst) = 1
    /\ diffSecond = diffFirst
    /\ diffPrev # <<>>


----------------------------------------------------------------------------
(* The delivery channel: unknown base URL, concurrent registrations *)

InFlight == {p \in RegCallers : reg[p].pc # "none"}

----------------------------------------------------------------------------
(* The first run *)

\* C27: on a cycle of the backend for which no preceding snapshot exists,
\* check_for_new_spots sends no alert, whatever spots are available, and
\* still stores the snapshot, so that the next cycle diffs against it.
C27_FirstRunSuppressed ==
    /\ [](deployment = "backend" =>
            /\ \A i \in DOMAIN alerts : alerts[i].snap >= 2
            /\ chkPc \in {"notify", "send", "record"} => chkLast # <<>>)
    /\ [][ (deployment = "backend" /\ chkPc = "loaded" /\ chkLast = <<>>
              /\ ~chkRaised')
           => /\ chkPc' = "idle"
              /\ alerts' = <<>>
              /\ Len(availability_snapshots') = Len(availability_snapshots) + 1
              /\ availability_snapshots'[Len(availability_snapshots')].spots
                    = chkSpots ]_vars

\* the first cycle ran to its end: an available spot is stored, a
\* subscriber is eligible, and nothing was sent
C27_Witness ==
    /\ deployment = "backend"
    /\ chkPc = "idle"
    /\ ~chkRaised
    /\ cycles = 1
    /\ Len(availability_snapshots) = 1
    /\ AvailableIn(1, "A", "C")
    /\ \E user_id \in UserIds : Eligible(user_id)
    /\ alerts = <<>>


----------------------------------------------------------------------------
(* Authenticated endpoints *)

\* the session token a request carries: the cookie, or the Bearer token of
\* the Authorization header when there is no cookie
Carried ==
    IF authReq.cookie \notin {NoToken, ""} THEN authReq.cookie
    ELSE IF \E tok \in Tokens : authReq.authorization = "Bearer " \o tok
         THEN CHOOSE tok \in Tokens : authReq.authorization = "Bearer " \o tok
         ELSE NoToken

\* the token carried matches a stored session of an existing user
KnownSession ==
    /\ Carried \in DOMAIN user_sessions
    /\ user_sessions[Carried].user_id \in DOMAIN users

\* the outcome of a request is settled by Accepted: 200 for the user of the
\* session if it holds, 401 otherwise, and a 401 changes no state
AuthDecidedBy(Accepted) ==
    authPc = "done"
    => /\ Accepted <=> authResp.status = 200
       /\ ~Accepted <=> authResp = NotAuthenticated
       /\ Accepted => authResp.user = user_sessions[Carried].user_id

\* C28 as stated: a request to an authenticated endpoint is accepted if and
\* only if it carries a session token (cookie, or Bearer header when no
\* cookie is present) of a stored session whose expiry time is still in the
\* future and whose user exists; otherwise the answer is 401.
C28_AcceptedIffExpiryInFuture ==
    AuthDecidedBy(KnownSession /\ user_sessions[Carried].expires_at > authNow)

\* C28, amended: the request is accepted if and only if it carries the token
\* of a stored session of an existing user whose expiry time is not earlier
\* than the time of the request; a missing, unknown or expired token yields
\* 401 and leaves the users and the sessions as they were.
C28_AcceptedIffNotExpired ==
    /\ [] AuthDecidedBy(KnownSession
                          /\ user_sessions[Carried].expires_at >= authNow)
    /\ [][ /\ user_sessions' = user_sessions
           /\ (authPc' = "done" /\ authResp' = NotAuthenticated)
                 => users' = users ]_vars

\* a Bearer token without a cookie, its session expiring at the very time
\* of the request, was accepted and the alerts of its user were switched off
C28_Witness ==
    /\ authPc = "done"
    /\ authReq = [cookie |-> NoToken, authorization |-> "Bearer t1"]
    /\ "t1" \in DOMAIN user_sessions
    /\ user_sessions["t1"].expires_at = authNow
    /\ authResp = [status |-> 200, user |-> "u1"]
    /\ ~users["u1"].alert_telegram


----------------------------------------------------------------------------
(* Inbound messages: stop, then start *)

\* after the step alerts are on for the chat: every subscriber record with
\* its chat id has alerts enabled (backend), the chat is among the
\* subscribers (bot)
AlertsOnAfter(chat_id) ==
    IF deployment = "backend"
    THEN \A u \in UserIds :
            users'[u].telegram_chat_id = StrOf(chat_id) => users'[u].alert_telegram
    ELSE StrOf(chat_id) \in subscribers'

\* task j, a /start, is answered in this step; it came in after a /stop of
\* the same chat had got its reply, and every /stop of the chat had ended
\* by then
StartAnsweredAfterStop(j) ==
    /\ j \in DOMAIN tasks'
    /\ Command(tasks'[j].text) = "start"
    /\ tasks'[j].pc = "done"
    /\ tasks'[j].replies # <<>>
    /\ j \in DOMAIN tasks => tasks[j].pc # "done"
    /\ \E i \in tasks'[j].ended :
          /\ tasks'[i].chat_id = tasks'[j].chat_id
          /\ Command(tasks'[i].text) = "stop"
          /\ tasks'[i].replies # <<>>
    /\ \A i \in DOMAIN tasks' :
          (tasks'[i].chat_id = tasks'[j].chat_id /\ Command(tasks'[i].text) = "stop")
          => i \in tasks'[j].ended

\* C29: after a chat has sent /stop and got the reply that alerts are
\* disabled, a /start from the same chat re-enables its alerts.
C29_StartReenables ==
    [][ \A j \in 1..MaxMsgs :
           StartAnsweredAfterStop(j) => AlertsOnAfter(tasks'[j].chat_id) ]_vars

----------------------------------------------------------------------------
(* Concurrent cycles *)

\* the scrapes in which key turned from not available to available
Events(key) ==
    {k \in 2..Len(scrapes) : key \in scrapes[k] /\ key \notin scrapes[k - 1]}

\* the alerts about key that were delivered to chat_id
Delivered(key, chat_id) ==
    {i \in DOMAIN alerts :
        /\ alerts[i].delivered
        /\ alerts[i].chat_id = chat_id
        /\ Key(alerts[i].university, alerts[i].test_date) = key}

\* C30: however a scheduled cycle and an operator-triggered refresh
\* interleave, a subscriber gets at most one alert for each time a spot key
\* turns from not available to available.
C30_AtMostOncePerEvent ==
    \A i \in DOMAIN alerts :
        LET key == Key(alerts[i].university, alerts[i].test_date)
        IN  Events(key) # {} =>
                Cardinality(Delivered(key, alerts[i].chat_id))
                    <= Cardinality(Events(key))

----------------------------------------------------------------------------
(* A failed scrape between two scrapes that found the spot *)

\* what cycle i kept of its scrape
KeptSpots(i) ==
    IF deployment = "backend" THEN availability_snapshots[i].spots
    ELSE botHistory[i]

\* the keys that cycle i found available
KeptKeys(i) ==
    IF deployment = "backend" THEN KeysOf(FilterAvailable(KeptSpots(i)))
    ELSE BotAvailableKeys(KeptSpots(i))

\* alert i of the running cycle was delivered; it is about a spot that the
\* cycle before the last one found available, and the last cycle's scrape
\* returned nothing
AlertAfterFailedScrape(i) ==
    LET n == alerts[i].snap - 1
    IN  /\ alerts[i].delivered
        /\ n >= 2
        /\ KeptSpots(n) = <<>>
        /\ Key(alerts[i].university, alerts[i].test_date) \in KeptKeys(n - 1)

\* C31: when a spot is available at cycle n-1 and at cycle n+1 and the scrape
\* of cycle n failed and returned nothing, cycle n+1 sends no alert for
\* that spot.
C31_NoRealertAfterFailedScrape ==
    \A i \in DOMAIN alerts : ~AlertAfterFailedScrape(i)

----------------------------------------------------------------------------
(* Stop while a fan-out is under way *)

\* the handling of a /stop of chat c has completed, and the chat has sent
\* nothing since
StopCompleted(c) ==
    \E i \in DOMAIN tasks :
        /\ StrOf(tasks[i].chat_id) = c
        /\ Command(tasks[i].text) = "stop"
        /\ tasks[i].pc = "done"
        /\ ~tasks[i].raised
        /\ \A j \in DOMAIN tasks : j > i => StrOf(tasks[j].chat_id) # c

\* this step ends with a spot alert for chat c still to be sent by the
\* fan-out under way: the backend goes on to the send for the next user of
\* the list it fetched, the bot goes on with the rest of its copy of the
\* subscribers
AlertStillToSend(c) ==
    IF deployment = "backend"
    THEN /\ chkPc' = "send"
         /\ chkPc # "send" \/ chkUsers' # chkUsers
         /\ Head(chkUsers').telegram_chat_id = c
    ELSE /\ botPc = "send"
         /\ botPc' = "send"
         /\ botChats' # botChats
         /\ c \in botChats'

\* C32: once the handling of a /stop from chat c has completed, no spot alert
\* is sent to c, not even by a fan-out that was under way when /stop was
\* handled.
C32_NoAlertAfterStop ==
    [][ \A c \in ChatIds : StopCompleted(c) => ~AlertStillToSend(c) ]_vars

----------------------------------------------------------------------------
(* The recorded registration state *)

\* in this step the call of register_webhook by p returns False
RegReturnsFailure(p) ==
    /\ reg[p].pc # "none"
    /\ reg'[p].pc = "none"
    /\ reg'[p].result = "False"

\* C33: the recorded registration state agrees with the verification: after
\* a call of register_webhook that returned failure (setWebhook failed or
\* the URL read back differed), state.webhook_registered is false.
C33_FailureLeavesUnregistered ==
    [][ \A p \in RegCallers : RegReturnsFailure(p) => ~webhook_registered' ]_vars

----------------------------------------------------------------------------
(* A health check that could not read the registration status *)

\* the repair of the health check takes one of its deleteWebhook steps,
\* after a check whose getWebhookInfo returned no data
RepairDeletesAfterFailedRead ==
    /\ hcPc = "repair"
    /\ reg["health"].pc \in {"delete", "set_delete"}
    /\ reg'["health"] # reg["health"]
    /\ hcInfo = EmptyDict

\* C34: a health check whose read of the registration status failed does not
\* unregister or replace a callback that the provider holds with the correct
\* URL.
C34_FailedReadKeepsCallback ==
    [][ (RepairDeletesAfterFailedRead /\ provUrl = WebhookUrl(base_url))
            => provUrl' = provUrl ]_vars

----------------------------------------------------------------------------
(* Shutdown *)

\* shutdown has cleared the running flags and its delete_webhook has returned
ShutdownDone == lsPc \in {"returned", "stopped"}

\* in this step the setWebhook call of the health checker's repair succeeds:
\* the provider holds the callback again
HealthRegisters ==
    /\ reg["health"].pc = "set_set"
    /\ reg'["health"].pc = "verify"
    /\ provUrl' = WebhookUrl(base_url)

\* C35: after shutdown has cleared the running flags and unregistered the
\* callback, no background loop registers the callback again, not even a
\* health-check iteration that was sleeping or in flight when shutdown began.
C35_ShutdownIsFinal ==
    [][ ShutdownDone => ~HealthRegisters ]_vars

----------------------------------------------------------------------------
(* The counters of the health checker *)

\* the health checks begun since the start, and those that have completed
ChecksBegun == now \div HealthInterval

ChecksCompleted == ChecksBegun - (IF hcPc = "repair" THEN 1 ELSE 0)

\* C36 as stated: in every reachable state health_checks_passed +
\* health_checks_failed equals the number of completed health checks, and
\* auto_recoveries never exceeds that number.
C36_CountersMatchCompleted ==
    /\ health_checks_passed + health_checks_failed = ChecksCompleted
    /\ auto_recoveries <= ChecksCompleted

\* C36: each completed health check adds one to exactly one of
\* health_checks_passed and health_checks_failed, so their sum is the number
\* of completed checks, and auto_recoveries exceeds that number by at most
\* the one repair under way, which is counted when it starts.
C36_CountersMatchChecks ==
    /\ health_checks_passed + health_checks_failed = ChecksCompleted
    /\ auto_recoveries <= ChecksBegun
    /\ auto_recoveries <= health_checks_passed + health_checks_failed
                            + (IF hcPc = "repair" THEN 1 ELSE 0)

\* a repair is under way after a passed and a failed check
C36_Witness ==
    /\ hcPc = "repair"
    /\ health_checks_passed >= 1
    /\ health_checks_failed >= 1
    /\ auto_recoveries = ChecksBegun

====
